---- MODULE Spec2Model ----
(***************************************************************************)
(* CSV ingestion jobs of src/app.py: process_csv_choropleth (choropleth    *)
(* builder) and process_csv (point-feature builder), with the column       *)
(* inference, the row loops, the period sort and the upload/catalog tail.  *)
(*                                                                         *)
(* Text is modelled as a sequence of one-character strings so that strip,  *)
(* upper, replace, isdigit, int and float are computed character by        *)
(* character, as Python computes them.  Header names are compared only as  *)
(* whole strings by the code, so they are kept as plain strings.           *)
(***************************************************************************)
EXTENDS Integers, Sequences, FiniteSets, TLC

\* ---------------------------------------------------------------------
\* Bounds
\* ---------------------------------------------------------------------

\* largest number of data rows in an uploaded CSV
MaxRows == 2

\* largest number of distinct period labels handed to the period sort
MaxLabels == 3

\* ---------------------------------------------------------------------
\* Python str operations on character sequences
\* ---------------------------------------------------------------------

LowerChars == <<"a","b","c","d","e","f","g","h","i","j","k","l","m",
                "n","o","p","q","r","s","t","u","v","w","x","y","z">>

UpperChars == <<"A","B","C","D","E","F","G","H","I","J","K","L","M",
                "N","O","P","Q","R","S","T","U","V","W","X","Y","Z">>

Digits == <<"0","1","2","3","4","5","6","7","8","9">>

Whitespace == {" "}

IndexIn(c, alphabet) == CHOOSE i \in 1..Len(alphabet) : alphabet[i] = c

IsIn(c, alphabet) == \E i \in 1..Len(alphabet) : alphabet[i] = c

\* str.upper()
upper(s) == [i \in 1..Len(s) |->
               IF IsIn(s[i], LowerChars) THEN UpperChars[IndexIn(s[i], LowerChars)]
               ELSE s[i]]

\* str.lower()
lower(s) == [i \in 1..Len(s) |->
               IF IsIn(s[i], UpperChars) THEN LowerChars[IndexIn(s[i], UpperChars)]
               ELSE s[i]]

\* str.strip(): drop leading and trailing whitespace
strip(s) ==
    LET keep == {i \in 1..Len(s) : s[i] \notin Whitespace}
    IN  IF keep = {} THEN <<>>
        ELSE LET lo == CHOOSE i \in keep : \A j \in keep : i <= j
                 hi == CHOOSE i \in keep : \A j \in keep : i >= j
             IN  SubSeq(s, lo, hi)

\* old in s  (substring test)
contains(s, old) ==
    \E i \in 1..(Len(s) - Len(old) + 1) : SubSeq(s, i, i + Len(old) - 1) = old

\* s.replace(old, new): every non-overlapping occurrence, left to right
RECURSIVE replace(_, _, _)
replace(s, old, new) ==
    IF Len(s) < Len(old) \/ old = <<>> THEN s
    ELSE IF SubSeq(s, 1, Len(old)) = old
         THEN new \o replace(SubSeq(s, Len(old) + 1, Len(s)), old, new)
         ELSE <<s[1]>> \o replace(Tail(s), old, new)

\* s.split(sep)[0]: the part before the first separator
split_first(s, sep) ==
    LET hits == {i \in 1..Len(s) : s[i] = sep}
    IN  IF hits = {} THEN s
        ELSE SubSeq(s, 1, (CHOOSE i \in hits : \A j \in hits : i <= j) - 1)

\* str.isdigit(): non-empty and every character a decimal digit
isdigit(s) == Len(s) > 0 /\ \A i \in 1..Len(s) : IsIn(s[i], Digits)

\* int(s) for a string of decimal digits
RECURSIVE int(_)
int(s) ==
    IF s = <<>> THEN 0
    ELSE 10 * int(SubSeq(s, 1, Len(s) - 1)) + (IndexIn(s[Len(s)], Digits) - 1)

\* ---------------------------------------------------------------------
\* Python float values: finite decimals num/den (den a power of ten, in
\* lowest decimal form), the two infinities and NaN.
\* ---------------------------------------------------------------------

RECURSIVE Pow10(_)
Pow10(n) == IF n = 0 THEN 1 ELSE 10 * Pow10(n - 1)

RECURSIVE Fin(_, _)
Fin(num, den) ==
    IF num = 0 THEN [k |-> "fin", num |-> 0, den |-> 1]
    ELSE IF den > 1 /\ num % 10 = 0 THEN Fin(num \div 10, den \div 10)
    ELSE [k |-> "fin", num |-> num, den |-> den]

NaN    == [k |-> "nan", num |-> 0, den |-> 1]
PosInf == [k |-> "inf", num |-> 1, den |-> 1]
NegInf == [k |-> "inf", num |-> -1, den |-> 1]
ValueError == [k |-> "ValueError", num |-> 0, den |-> 1]

Zero == Fin(0, 1)

\* a < b on floats (IEEE: every comparison with NaN is false)
FloatLt(a, b) ==
    IF a.k = "nan" \/ b.k = "nan" THEN FALSE
    ELSE IF a.k = "inf" THEN a.num < 0 /\ ~(b.k = "inf" /\ b.num < 0)
    ELSE IF b.k = "inf" THEN b.num > 0
    ELSE a.num * b.den < b.num * a.den

\* a == b on floats (NaN is not equal to itself)
FloatEq(a, b) ==
    IF a.k = "nan" \/ b.k = "nan" THEN FALSE
    ELSE a = b

FloatLe(a, b) == FloatLt(a, b) \/ FloatEq(a, b)

\* float(s) for the literals [ws][+-](digits[.digits] | .digits | inf |
\* infinity | nan)[ws]; anything else raises ValueError.  (Exponents and
\* digit-group underscores do not occur in the cells of this model.)
float(s) ==
    LET t    == strip(s)
        neg  == Len(t) > 0 /\ t[1] = "-"
        body == IF Len(t) > 0 /\ t[1] \in {"+", "-"} THEN Tail(t) ELSE t
        word == lower(body)
        ip   == split_first(body, ".")
        fp   == IF Len(ip) = Len(body) THEN <<>>
                ELSE SubSeq(body, Len(ip) + 2, Len(body))
        ok   == /\ Len(ip) + Len(fp) > 0
                /\ \A i \in 1..Len(ip) : IsIn(ip[i], Digits)
                /\ \A i \in 1..Len(fp) : IsIn(fp[i], Digits)
        mag  == int(ip \o fp)
    IN  IF word = <<"n","a","n">> THEN NaN
        ELSE IF word = <<"i","n","f">> \/ word = <<"i","n","f","i","n","i","t","y">>
             THEN (IF neg THEN NegInf ELSE PosInf)
        ELSE IF ok THEN Fin(IF neg THEN 0 - mag ELSE mag, Pow10(Len(fp)))
        ELSE ValueError

\* ---------------------------------------------------------------------
\* Cell texts and header rows of the uploaded CSV files
\* ---------------------------------------------------------------------

\* Python None for an optional column name (no header has this name)
None == "<None>"

\* truthiness of a str-or-None value: None and '' are falsy
Truthy(x) == x # None /\ x # ""

t_id        == <<" ","i","d">>
t_US        == <<"U","S">>
t_XX        == <<"X","X">>
t_IDN       == <<"I","D","N">>
t_bali      == <<"P","r","o","v","i","n","s","i"," ","B","a","l","i">>
t_DIY       == <<"D","I","Y">>
t_jawa      == <<"J","a","w","a"," ","B","a","r","a","t">>
t_2020      == <<"2","0","2","0">>
t_2021_05   == <<"2","0","2","1","-","0","5">>
t_7         == <<"7">>
t_1000      == <<"1",",","0","0","0">>
t_nan       == <<"n","a","n">>
t_na        == <<"n","/","a">>
t_comma     == <<" ",",">>
t_0         == <<"0">>
t_neg0      == <<"-","0",".","0">>
t_1_5       == <<"1",".","5">>
t_2         == <<" ","2">>
t_a         == <<"a">>

\* the cells that occur under each header of the modelled files
CellsOf(h) ==
    CASE h = "provinsi" -> {t_bali, t_DIY}
      [] h = "Code"     -> {t_id, t_US, <<>>}
      [] h = "ISO3"     -> {t_IDN}
      [] h = "Country"  -> {t_US, t_XX}
      [] h = "tahun"    -> {t_2020, t_2021_05}
      [] h = "Year"     -> {t_2020}
      [] h = "value"    -> {t_7, t_1000, t_nan}
      [] h = "Value"    -> {t_7, <<>>, t_na}
      [] h = "amt"      -> {t_na, t_7, t_comma}
      [] h = "name"     -> {t_jawa, t_a}
      [] h = "pop"      -> {t_7}
      [] h = "lat"      -> {t_0, t_1_5, t_na}
      [] h = "lon"      -> {t_neg0, t_2, <<>>}
      [] OTHER          -> {t_a}

\* header rows of the choropleth uploads
ChoroplethHeaders ==
    { <<"provinsi", "tahun", "value">>,
      <<"ISO3", "provinsi", "value">>,
      <<"Code", "Year", "Value">>,
      <<"Code", "amt">>,
      <<"name", "pop">> }

\* header rows of the point uploads
PointHeaders ==
    { <<"lat", "lon", "label">>,
      <<"Country", "pop">>,
      <<"Country", "provinsi", "pop">>,
      <<"name", "pop">> }

Range(f) == {f[i] : i \in DOMAIN f}

\* csv.DictReader rows over a header row: one cell under every header
RowsOver(hs) == {r \in [Range(hs) -> UNION {CellsOf(h) : h \in Range(hs)}] :
                    \A h \in Range(hs) : r[h] \in CellsOf(h)}

\* the files: up to MaxRows data rows under the header row
FilesOver(hs) == UNION {[1..n -> RowsOver(hs)] : n \in 0..MaxRows}

\* next((h for h in headers if h in candidates), None)
first_in(hs, candidates) ==
    LET hits == {i \in 1..Len(hs) : hs[i] \in candidates}
    IN  IF hits = {} THEN None
        ELSE hs[CHOOSE i \in hits : \A j \in hits : i <= j]

\* ---------------------------------------------------------------------
\* State
\* ---------------------------------------------------------------------

VARIABLES
    upload_type,        \* the upload_type form field: which job admin_upload starts
    headers,            \* reader.fieldnames
    rows,               \* the data rows of the uploaded file
    value_col_name,     \* process_csv_choropleth parameter
    lat_col, lon_col,   \* process_csv parameters, then its inferred columns
    popup_col,          \* process_csv parameter
    r2_client,          \* TRUE iff the R2 client was initialised
    pc,                 \* position of the job in its function body
    i,                  \* number of rows the row loop has consumed
    country_col, year_col, value_col,
    use_indo_geojson,   \* process_csv_choropleth local
    use_country_geocoding, use_indo_geocoding,   \* process_csv locals
    data, years_set, min_value, max_value,       \* choropleth accumulators
    years,              \* sorted period labels
    geojson_filename,   \* process_csv_choropleth local; None while unbound
    choropleth_data,    \* the structure dumped to choropleth.json
    features,           \* process_csv: the feature list
    skipped_countries,  \* process_csv: the skip-set
    geojson,            \* the FeatureCollection dumped to data.geojson
    files,              \* local files that exist: "csv", "json"
    r2_bucket,          \* objects uploaded to R2
    map_layers,         \* layer_type of each row inserted into the D1 catalog
    conversion_tasks,   \* task_id -> status entry
    \* generate_smart_insight (correlation.py)
    len_data1, len_data2,   \* len(data1), len(data2)
    ipc,                \* position in generate_smart_insight
    insight_n,          \* n = len(data1), as line 26 takes it
    pearson_r, pearson_p, spearman_rho, mi_score,   \* in thousandths
    relationship_type, strength,
    missing_pairs,      \* number of pairs in which a value is None or NaN
    has_outliers, outlier_warning,
    n_outliers,         \* len(unique_outliers)
    r_clean,            \* <<Pearson r of the points left>>; <<>> while not computed
    direction, confidence,
    result,             \* what the call returned, or the exception it raised
    \* convert_tiles.py
    tpc,                \* position in main / process_geotiff
    args_zoom_min, args_zoom_max,   \* args.zoom_min, args.zoom_max
    zoom_min, zoom_max, \* process_geotiff parameters, then the range used
    bounds,             \* get_geotiff_bounds(input_tif)
    file_size_kb,
    gdal_zoom,          \* the --zoom range handed to gdal2tiles.py
    exit_code,          \* sys.exit status
    \* concurrent requests
    disk,               \* path -> content of the files on the local disk
    jobs,               \* request -> its names, position and buffers
    \* upload_tiles_to_r2
    png_files,          \* number of .png files under the job's tile directory
    uploaded,           \* upload_tiles_to_r2 local
    walked,             \* number of .png files the walk has visited
    success, msg        \* what upload_tiles_to_r2 returned

inputVars == <<upload_type, headers, rows, value_col_name, popup_col, r2_client>>
colVars   == <<lat_col, lon_col, country_col, year_col, value_col,
               use_indo_geojson, use_country_geocoding, use_indo_geocoding>>
accVars   == <<data, years_set, min_value, max_value>>
pointVars == <<features, skipped_countries>>
outVars   == <<years, geojson_filename, choropleth_data, geojson>>
extVars   == <<files, r2_bucket, map_layers>>

\* the variables of the upload jobs
jobVars == <<inputVars, colVars, accVars, pointVars, outVars, extVars,
             pc, i, conversion_tasks>>

\* the variables of generate_smart_insight
insightVars == <<len_data1, len_data2, missing_pairs, n_outliers, r_clean, ipc, insight_n, pearson_r, pearson_p, spearman_rho, mi_score,
                 relationship_type, strength, has_outliers, outlier_warning,
                 direction, confidence, result>>

\* the variables of convert_tiles.py
tilesVars == <<tpc, args_zoom_min, args_zoom_max, zoom_min, zoom_max, bounds, file_size_kb,
               gdal_zoom, exit_code>>

\* the variables of concurrent requests
concVars == <<disk, jobs>>

\* the variables of upload_tiles_to_r2
uploadVars == <<png_files, uploaded, walked, success, msg>>

\* the variables that no CSV job touches
otherVars == <<insightVars, tilesVars, concVars, uploadVars>>

\* the variables that generate_smart_insight does not touch
notInsightVars == <<jobVars, tilesVars, concVars, uploadVars>>

\* the variables that convert_tiles.py does not touch
notTilesVars == <<jobVars, insightVars, concVars, uploadVars>>

vars == <<jobVars, otherVars>>

\* the task id that admin_upload gave the job
task_id == "task-1"

\* ---------------------------------------------------------------------
\* conversion_tasks entries.  A Python entry is a dict with 'status' and
\* some of 'progress', 'error'; an absent 'progress' is written -1 and an
\* absent 'error' is NoError.  An error text keeps what its f-string
\* interpolates: a column name and/or the header list.
\* ---------------------------------------------------------------------

NoProgress == 0 - 1

NoError == [text |-> "", column |-> None, names_headers |-> FALSE, headers |-> <<>>]

Message(text) == [text |-> text, column |-> None, names_headers |-> FALSE, headers |-> <<>>]

Converting(progress) == [status |-> "converting", progress |-> progress, error |-> NoError]

Error(err) == [status |-> "error", progress |-> NoProgress, error |-> err]

Done == [status |-> "done", progress |-> 100, error |-> NoError]

EmptyDict == [x \in {} |-> 0]

NoOutput == [type |-> "none"]

\* ---------------------------------------------------------------------
\* process_csv_choropleth: column detection
\* ---------------------------------------------------------------------

year_candidates ==
    {"Year", "year", "YEAR", "TIME_PERIOD", "Date", "date", "TIME",
     "TIMEE", "Timee", "timee", "TAHUN", "Tahun", "tahun"}

choropleth_country_candidates ==
    {"REF_AREA", "Code", "code", "ISO2", "ISO3", "ISO_A2", "ISO_A3",
     "country_code", "CountryCode", "COUNTRY", "Country", "country",
     "iso_code", "ISO_CODE", "iso2", "iso3"}

choropleth_indo_candidates ==
    {"provinsi", "PROVINSI", "province", "daerah", "Propinsi", "location", "region"}

value_candidates ==
    {"Value", "value", "VALUE", "OBS_VALUE", "GDP", "gdp",
     "GDP per capita, PPP (constant 2021 international $)",
     "Amount", "amount", "Count", "count", "Total", "total"}

w_indonesia == <<"i","n","d","o","n","e","s","i","a">>
w_jawa      == <<"j","a","w","a">>
w_sumatera  == <<"s","u","m","a","t","e","r","a">>

\* the first header whose cell in the first row hints at an Indonesian place
hinted_col(hs, sample) ==
    LET hits == {n \in 1..Len(hs) :
                    LET first_val == lower(sample[hs[n]])
                    IN  \/ contains(first_val, w_indonesia)
                        \/ contains(first_val, w_jawa)
                        \/ contains(first_val, w_sumatera)}
    IN  IF hits = {} THEN None
        ELSE hs[CHOOSE n \in hits : \A m \in hits : n <= m]

\* a variant that lets a country header win over a province header
choropleth_region_countryfirst(hs, sample) ==
    LET indo_col == first_in(hs, choropleth_indo_candidates)
        ccol     == first_in(hs, choropleth_country_candidates)
    IN  IF Truthy(ccol) THEN [country_col |-> ccol, use_indo_geojson |-> FALSE]
        ELSE IF Truthy(indo_col) THEN [country_col |-> indo_col, use_indo_geojson |-> TRUE]
        ELSE IF Truthy(hinted_col(hs, sample))
             THEN [country_col |-> hinted_col(hs, sample), use_indo_geojson |-> TRUE]
        ELSE [country_col |-> None, use_indo_geojson |-> FALSE]

\* the region column and the province flag
choropleth_region(hs, sample) ==
    LET indo_col == first_in(hs, choropleth_indo_candidates)
        ccol     == first_in(hs, choropleth_country_candidates)
    IN  IF Truthy(indo_col) THEN [country_col |-> indo_col, use_indo_geojson |-> TRUE]
        ELSE IF ~Truthy(ccol)
             THEN IF hinted_col(hs, sample) # None
                  THEN [country_col |-> hinted_col(hs, sample), use_indo_geojson |-> TRUE]
                  ELSE [country_col |-> ccol, use_indo_geojson |-> FALSE]
        ELSE [country_col |-> ccol, use_indo_geojson |-> FALSE]

\* an explicit value column that is not a header
explicit_missing(hs, name) == Truthy(name) /\ name \notin Range(hs)

\* the first header outside year/region whose first-row cell parses as a
\* number once its commas are removed
numeric_col(hs, sample, ycol, ccol) ==
    LET hits == {n \in 1..Len(hs) :
                    /\ hs[n] \notin {ycol, ccol}
                    /\ float(replace(sample[hs[n]], <<",">>, <<>>)).k # "ValueError"}
    IN  IF hits = {} THEN None
        ELSE hs[CHOOSE n \in hits : \A m \in hits : n <= m]

\* the value column, for a name that is absent or is a header
choropleth_value_col(hs, sample, name, ycol, ccol) ==
    LET v == IF Truthy(name) THEN name ELSE first_in(hs, value_candidates)
    IN  IF Truthy(v) THEN v ELSE numeric_col(hs, sample, ycol, ccol)

\* the error texts of the detection exits
err_explicit(name) ==
    [text |-> "Kolom \"{value_col_name}\" tidak ditemukan di CSV",
     column |-> name, names_headers |-> FALSE, headers |-> <<>>]

err_no_region(hs) ==
    [text |-> "Kolom negara/wilayah tidak ditemukan. Headers: {headers}",
     column |-> None, names_headers |-> TRUE, headers |-> hs]

err_no_value(hs) ==
    [text |-> "Kolom nilai tidak ditemukan. Headers: {headers}",
     column |-> None, names_headers |-> TRUE, headers |-> hs]

\* ---------------------------------------------------------------------
\* process_csv_choropleth: one row of the build loop
\* ---------------------------------------------------------------------

w_PROVINSI      == <<"P","R","O","V","I","N","S","I">>
w_DIY           == <<"D","I","Y">>
w_DI_YOGYAKARTA == <<"D","I"," ","Y","O","G","Y","A","K","A","R","T","A">>
w_DAERAH_ISTIMEWA_YOGYAKARTA ==
    <<"D","A","E","R","A","H"," ","I","S","T","I","M","E","W","A"," ",
      "Y","O","G","Y","A","K","A","R","T","A">>
w_DKI           == <<"D","K","I">>
w_DKI_JAKARTA   == <<"D","K","I"," ","J","A","K","A","R","T","A">>
w_all           == <<"a","l","l">>

\* the region key of a row
choropleth_row_region(row, ccol, indo) ==
    LET region == upper(strip(row[ccol]))
        r1     == strip(replace(region, w_PROVINSI, <<>>))
        r2     == IF r1 = w_DIY \/ r1 = w_DI_YOGYAKARTA
                  THEN w_DAERAH_ISTIMEWA_YOGYAKARTA ELSE r1
        r3     == IF r2 = w_DKI \/ r2 = w_DKI_JAKARTA THEN w_DKI_JAKARTA ELSE r2
    IN  IF indo THEN r3 ELSE region

\* the period label of a row
choropleth_row_year(row, ycol) ==
    IF Truthy(ycol)
    THEN LET year_raw == strip(row[ycol])
         IN  IF contains(year_raw, <<"-">>) THEN split_first(year_raw, "-")
             ELSE year_raw
    ELSE w_all

\* the value of a row; ValueError stands for the except branch
choropleth_row_value(row, vcol) ==
    LET val_raw == strip(replace(row[vcol], <<",">>, <<>>))
    IN  IF val_raw # <<>> THEN float(val_raw) ELSE Zero

\* the loop body reaches "Store data" for this row
choropleth_row_accepted(row, ccol, vcol, indo) ==
    /\ choropleth_row_region(row, ccol, indo) # <<>>
    /\ choropleth_row_value(row, vcol).k # "ValueError"

\* data[region][year] = value
dict_store(d, region, year, value) ==
    [r \in DOMAIN d \cup {region} |->
        IF r = region
        THEN LET old == IF region \in DOMAIN d THEN d[region] ELSE EmptyDict
             IN  [y \in DOMAIN old \cup {year} |-> IF y = year THEN value ELSE old[y]]
        ELSE d[r]]

\* every value stored in data
dict_values(d) == UNION {Range(d[r]) : r \in DOMAIN d}

\* ---------------------------------------------------------------------
\* Period sort
\* ---------------------------------------------------------------------

\* a variant that sorts the numeric labels in descending order
year_key_descending(x) == IF isdigit(x) THEN 0 - int(x) ELSE 0

\* lambda x: int(x) if x.isdigit() else 0
year_key(x) == IF isdigit(x) THEN int(x) ELSE 0

\* sorted(seq, key=lambda x: ...): the stable sort by ascending year_key
sorted(seq) ==
    LET before(a, b) == \/ year_key(seq[a]) < year_key(seq[b])
                        \/ (year_key(seq[a]) = year_key(seq[b]) /\ a < b)
        rank(a)      == Cardinality({b \in 1..Len(seq) : before(b, a)}) + 1
    IN  [p \in 1..Len(seq) |-> seq[CHOOSE a \in 1..Len(seq) : rank(a) = p]]

\* list(s) for a set of str: the iteration order of a set of strings is
\* any order (string hashes are randomised per process)
list_of(S) == {f \in [1..Cardinality(S) -> S] : \A a, b \in 1..Cardinality(S) : a # b => f[a] # f[b]}

\* ---------------------------------------------------------------------
\* process_csv_choropleth: the job
\* ---------------------------------------------------------------------

\* "if not rows" / "if not data": nothing was read / nothing was stored
no_rows(rs) == rs = <<>>

no_data_never(d) == FALSE

no_data(d) == DOMAIN d = {}

\* lines 309-322: read the file
ChoroRead ==
    /\ upload_type = "choropleth"
    /\ pc = "start"
    /\ IF no_rows(rows)
       THEN /\ conversion_tasks' = [conversion_tasks EXCEPT ![task_id] = Error(Message("CSV kosong"))]
            /\ files' = files \ {"csv"}
            /\ pc' = "returned"
       ELSE /\ conversion_tasks' = [conversion_tasks EXCEPT ![task_id] = Converting(10)]
            /\ files' = files
            /\ pc' = "detect"
    /\ UNCHANGED <<inputVars, colVars, accVars, pointVars, outVars, r2_bucket, map_layers, i>>
    /\ UNCHANGED otherVars

\* lines 324-406: detect the columns, initialise the accumulators
ChoroDetect ==
    /\ upload_type = "choropleth"
    /\ pc = "detect"
    /\ LET reg  == choropleth_region(headers, rows[1])
           ycol == first_in(headers, year_candidates)
           vcol == choropleth_value_col(headers, rows[1], value_col_name, ycol, reg.country_col)
           fail == IF explicit_missing(headers, value_col_name) THEN err_explicit(value_col_name)
                   ELSE IF ~Truthy(reg.country_col) THEN err_no_region(headers)
                   ELSE IF ~Truthy(vcol) THEN err_no_value(headers)
                   ELSE NoError
       IN  /\ country_col' = reg.country_col
           /\ use_indo_geojson' = reg.use_indo_geojson
           /\ year_col' = ycol
           /\ value_col' = IF explicit_missing(headers, value_col_name) THEN None ELSE vcol
           /\ IF fail # NoError
              THEN /\ conversion_tasks' = [conversion_tasks EXCEPT ![task_id] = Error(fail)]
                   /\ files' = files \ {"csv"}
                   /\ pc' = "returned"
              ELSE /\ conversion_tasks' = [conversion_tasks EXCEPT ![task_id] = Converting(30)]
                   /\ files' = files
                   /\ pc' = "rows"
    /\ data' = EmptyDict
    /\ years_set' = {}
    /\ min_value' = PosInf
    /\ max_value' = NegInf
    /\ UNCHANGED <<inputVars, lat_col, lon_col, use_country_geocoding, use_indo_geocoding,
                   pointVars, outVars, r2_bucket, map_layers, i>>
    /\ UNCHANGED otherVars

\* lines 408-448: one iteration of the build loop
ChoroRow ==
    /\ upload_type = "choropleth"
    /\ pc = "rows"
    /\ i < Len(rows)
    /\ LET row    == rows[i + 1]
           region == choropleth_row_region(row, country_col, use_indo_geojson)
           year   == choropleth_row_year(row, year_col)
           value  == choropleth_row_value(row, value_col)
       IN  IF choropleth_row_accepted(row, country_col, value_col, use_indo_geojson)
           THEN /\ data' = dict_store(data, region, year, value)
                /\ years_set' = years_set \cup {year}
                /\ min_value' = IF FloatLt(value, min_value) THEN value ELSE min_value
                /\ max_value' = IF FloatLt(max_value, value) THEN value ELSE max_value
           ELSE UNCHANGED accVars
    /\ i' = i + 1
    /\ UNCHANGED <<inputVars, colVars, pointVars, outVars, extVars, pc, conversion_tasks>>
    /\ UNCHANGED otherVars

\* lines 450-456: empty check, then sort the period labels
ChoroSort ==
    /\ upload_type = "choropleth"
    /\ pc = "rows"
    /\ i = Len(rows)
    /\ IF no_data(data)
       THEN /\ conversion_tasks' = [conversion_tasks EXCEPT ![task_id] = Error(Message("Tidak ada data valid"))]
            /\ files' = files \ {"csv"}
            /\ years' = years
            /\ pc' = "returned"
       ELSE /\ \E lst \in list_of(years_set) : years' = sorted(lst)
            /\ UNCHANGED <<conversion_tasks, files>>
            /\ pc' = "geometry"
    /\ UNCHANGED <<inputVars, colVars, accVars, pointVars, geojson_filename, choropleth_data,
                   geojson, r2_bucket, map_layers, i>>
    /\ UNCHANGED otherVars

\* lines 458-476: attach the shared province boundary file
ChoroGeometry ==
    /\ upload_type = "choropleth"
    /\ pc = "geometry"
    /\ \E exists \in BOOLEAN, raises \in BOOLEAN :
         IF use_indo_geojson /\ exists /\ r2_client /\ raises
         THEN \* r2_client.upload_file raised: the outer handler
              /\ geojson_filename' = "indonesia-provinces.geojson"
              /\ r2_bucket' = r2_bucket
              /\ conversion_tasks' = [conversion_tasks EXCEPT ![task_id] = Error(Message("str(e)"))]
              /\ pc' = "returned"
         ELSE /\ geojson_filename' = IF use_indo_geojson /\ exists
                                     THEN "indonesia-provinces.geojson" ELSE geojson_filename
              /\ r2_bucket' = IF use_indo_geojson /\ exists /\ r2_client
                              THEN r2_bucket \cup {[key |-> "indonesia-provinces.geojson", body |-> NoOutput]}
                              ELSE r2_bucket
              /\ conversion_tasks' = [conversion_tasks EXCEPT ![task_id] = Converting(60)]
              /\ pc' = "build"
    /\ UNCHANGED <<inputVars, colVars, accVars, pointVars, years, choropleth_data, geojson,
                   files, map_layers, i>>
    /\ UNCHANGED otherVars

\* lines 478-493: build the structure and dump it to the temporary file
ChoroBuild ==
    /\ upload_type = "choropleth"
    /\ pc = "build"
    /\ IF use_indo_geojson /\ geojson_filename = None
       THEN \* NameError on the unbound geojson_filename: the outer handler
            /\ conversion_tasks' = [conversion_tasks EXCEPT ![task_id] = Error(Message("str(e)"))]
            /\ UNCHANGED <<choropleth_data, files>>
            /\ pc' = "returned"
       ELSE /\ choropleth_data' =
                 [type |-> "choropleth",
                  years |-> years,
                  value_column |-> value_col,
                  country_column |-> country_col,
                  data |-> data,
                  min_value |-> IF min_value # PosInf THEN min_value ELSE Zero,
                  max_value |-> IF max_value # NegInf THEN max_value ELSE Fin(100, 1),
                  geojson_file |-> IF use_indo_geojson THEN geojson_filename ELSE None]
            /\ files' = files \cup {"json"}
            /\ UNCHANGED conversion_tasks
            /\ pc' = "upload"
    /\ UNCHANGED <<inputVars, colVars, accVars, pointVars, years, geojson_filename, geojson,
                   r2_bucket, map_layers, i>>
    /\ UNCHANGED otherVars

\* lines 495-525: upload to R2 and insert the catalog row
ChoroUpload ==
    /\ upload_type = "choropleth"
    /\ pc = "upload"
    /\ \E raises \in BOOLEAN, layer_id \in {None, "uuid"} :
         IF ~r2_client
         THEN /\ conversion_tasks' = [conversion_tasks EXCEPT ![task_id] = Error(Message("R2 tidak terhubung"))]
              /\ UNCHANGED <<r2_bucket, map_layers>>
         ELSE IF raises
         THEN /\ conversion_tasks' = [conversion_tasks EXCEPT ![task_id] = Error(Message("Upload error: {str(e)}"))]
              /\ UNCHANGED <<r2_bucket, map_layers>>
         ELSE /\ r2_bucket' = r2_bucket \cup {[key |-> "choropleth.json", body |-> choropleth_data]}
              /\ map_layers' = IF layer_id # None THEN map_layers \cup {"choropleth"} ELSE map_layers
              /\ conversion_tasks' = [conversion_tasks EXCEPT ![task_id] =
                     IF layer_id # None THEN Done ELSE Error(Message("R2 OK, tapi D1 gagal"))]
    /\ pc' = "cleanup"
    /\ UNCHANGED <<inputVars, colVars, accVars, pointVars, outVars, files, i>>
    /\ UNCHANGED otherVars

\* what an unguarded os.remove of the saved upload can do: remove it, or
\* raise because the file is gone, or raise with the file left in place
RemoveOutcomes == {"removed", "missing", "denied"}

\* lines 527-534: remove the temporary file and the upload; os.remove of
\* the upload is inside the try block, so its exception reaches line 534
ChoroCleanup ==
    /\ upload_type = "choropleth"
    /\ pc = "cleanup"
    /\ \E outcome \in RemoveOutcomes :
          /\ files' = IF outcome = "denied" THEN files \ {"json"} ELSE files \ {"json", "csv"}
          /\ conversion_tasks' =
                IF outcome = "removed"
                THEN conversion_tasks
                ELSE [conversion_tasks EXCEPT ![task_id] = Error(Message("str(e)"))]
    /\ pc' = "returned"
    /\ UNCHANGED <<inputVars, colVars, accVars, pointVars, outVars, r2_bucket, map_layers, i>>
    /\ UNCHANGED otherVars

\* ---------------------------------------------------------------------
\* process_csv: the centroid tables.  An entry is <<key, lat, lon>>.
\* ---------------------------------------------------------------------

\* the decimal literal num / 10^places
D(num, places) == Fin(num, Pow10(places))

COUNTRY_CENTROIDS ==
    { <<<<"A","F">>, D(3393911, 5), D(67709953, 6)>>,
      <<<<"A","L">>, D(41153332, 6), D(20168331, 6)>>,
      <<<<"D","Z">>, D(28033886, 6), D(1659626, 6)>>,
      <<<<"A","D">>, D(42546245, 6), D(1601554, 6)>>,
      <<<<"A","O">>, D(0 - 11202692, 6), D(17873887, 6)>>,
      <<<<"A","R">>, D(0 - 38416097, 6), D(0 - 63616672, 6)>>,
      <<<<"A","M">>, D(40069099, 6), D(45038189, 6)>>,
      <<<<"A","U">>, D(0 - 25274398, 6), D(133775136, 6)>>,
      <<<<"A","T">>, D(47516231, 6), D(14550072, 6)>>,
      <<<<"A","Z">>, D(40143105, 6), D(47576927, 6)>>,
      <<<<"B","S">>, D(2503428, 5), D(0 - 7739628, 5)>>,
      <<<<"B","H">>, D(260667, 4), D(505577, 4)>>,
      <<<<"B","D">>, D(23684994, 6), D(90356331, 6)>>,
      <<<<"B","Y">>, D(53709807, 6), D(27953389, 6)>>,
      <<<<"B","E">>, D(50503887, 6), D(4469936, 6)>>,
      <<<<"B","Z">>, D(17189877, 6), D(0 - 8849765, 5)>>,
      <<<<"B","J">>, D(930769, 5), D(2315834, 6)>>,
      <<<<"B","T">>, D(27514162, 6), D(90433601, 6)>>,
      <<<<"B","O">>, D(0 - 16290154, 6), D(0 - 63588653, 6)>>,
      <<<<"B","A">>, D(43915886, 6), D(17679076, 6)>>,
      <<<<"B","W">>, D(0 - 22328474, 6), D(24684866, 6)>>,
      <<<<"B","R">>, D(0 - 14235004, 6), D(0 - 5192528, 5)>>,
      <<<<"B","N">>, D(4535277, 6), D(114727669, 6)>>,
      <<<<"B","G">>, D(42733883, 6), D(2548583, 5)>>,
      <<<<"B","F">>, D(12238333, 6), D(0 - 1561593, 6)>>,
      <<<<"B","I">>, D(0 - 3373056, 6), D(29918886, 6)>>,
      <<<<"K","H">>, D(12565679, 6), D(104990963, 6)>>,
      <<<<"C","M">>, D(7369722, 6), D(12354722, 6)>>,
      <<<<"C","A">>, D(56130366, 6), D(0 - 106346771, 6)>>,
      <<<<"C","V">>, D(16002082, 6), D(0 - 24013197, 6)>>,
      <<<<"C","F">>, D(6611111, 6), D(20939444, 6)>>,
      <<<<"T","D">>, D(15454166, 6), D(18732207, 6)>>,
      <<<<"C","L">>, D(0 - 35675147, 6), D(0 - 71542969, 6)>>,
      <<<<"C","N">>, D(3586166, 5), D(104195397, 6)>>,
      <<<<"C","O">>, D(4570868, 6), D(0 - 74297333, 6)>>,
      <<<<"K","M">>, D(0 - 11875001, 6), D(43872219, 6)>>,
      <<<<"C","G">>, D(0 - 228021, 6), D(15827659, 6)>>,
      <<<<"C","D">>, D(0 - 4038333, 6), D(21758664, 6)>>,
      <<<<"C","R">>, D(9748917, 6), D(0 - 83753428, 6)>>,
      <<<<"C","I">>, D(7539989, 6), D(0 - 554708, 5)>>,
      <<<<"H","R">>, D(451, 1), D(152, 1)>>,
      <<<<"C","U">>, D(21521757, 6), D(0 - 77781167, 6)>>,
      <<<<"C","Y">>, D(35126413, 6), D(33429859, 6)>>,
      <<<<"C","Z">>, D(49817492, 6), D(15472962, 6)>>,
      <<<<"D","K">>, D(5626392, 5), D(9501785, 6)>>,
      <<<<"D","J">>, D(11825138, 6), D(42590275, 6)>>,
      <<<<"D","M">>, D(15414999, 6), D(0 - 61370976, 6)>>,
      <<<<"D","O">>, D(18735693, 6), D(0 - 70162651, 6)>>,
      <<<<"E","C">>, D(0 - 1831239, 6), D(0 - 78183406, 6)>>,
      <<<<"E","G">>, D(26820553, 6), D(30802498, 6)>>,
      <<<<"S","V">>, D(13794185, 6), D(0 - 8889653, 5)>>,
      <<<<"G","Q">>, D(1650801, 6), D(10267895, 6)>>,
      <<<<"E","R">>, D(15179384, 6), D(39782334, 6)>>,
      <<<<"E","E">>, D(58595272, 6), D(25013607, 6)>>,
      <<<<"E","T">>, D(9145, 3), D(40489673, 6)>>,
      <<<<"F","J">>, D(0 - 17713371, 6), D(178065032, 6)>>,
      <<<<"F","I">>, D(6192411, 5), D(25748151, 6)>>,
      <<<<"F","R">>, D(46227638, 6), D(2213749, 6)>>,
      <<<<"G","A">>, D(0 - 803689, 6), D(11609444, 6)>>,
      <<<<"G","M">>, D(13443182, 6), D(0 - 15310139, 6)>>,
      <<<<"G","E">>, D(42315407, 6), D(43356892, 6)>>,
      <<<<"D","E">>, D(51165691, 6), D(10451526, 6)>>,
      <<<<"G","H">>, D(7946527, 6), D(0 - 1023194, 6)>>,
      <<<<"G","R">>, D(39074208, 6), D(21824312, 6)>>,
      <<<<"G","T">>, D(15783471, 6), D(0 - 90230759, 6)>>,
      <<<<"G","N">>, D(9945587, 6), D(0 - 9696645, 6)>>,
      <<<<"G","W">>, D(11803749, 6), D(0 - 15180413, 6)>>,
      <<<<"G","Y">>, D(4860416, 6), D(0 - 5893018, 5)>>,
      <<<<"H","T">>, D(18971187, 6), D(0 - 72285215, 6)>>,
      <<<<"H","N">>, D(15199999, 6), D(0 - 86241905, 6)>>,
      <<<<"H","U">>, D(47162494, 6), D(19503304, 6)>>,
      <<<<"I","S">>, D(64963051, 6), D(0 - 19020835, 6)>>,
      <<<<"I","N">>, D(20593684, 6), D(7896288, 5)>>,
      <<<<"I","D">>, D(0 - 789275, 6), D(113921327, 6)>>,
      <<<<"I","R">>, D(32427908, 6), D(53688046, 6)>>,
      <<<<"I","Q">>, D(33223191, 6), D(43679291, 6)>>,
      <<<<"I","E">>, D(5341291, 5), D(0 - 824389, 5)>>,
      <<<<"I","L">>, D(31046051, 6), D(34851612, 6)>>,
      <<<<"I","T">>, D(4187194, 5), D(1256738, 5)>>,
      <<<<"J","M">>, D(18109581, 6), D(0 - 77297508, 6)>>,
      <<<<"J","P">>, D(36204824, 6), D(138252924, 6)>>,
      <<<<"J","O">>, D(30585164, 6), D(36238414, 6)>>,
      <<<<"K","Z">>, D(48019573, 6), D(66923684, 6)>>,
      <<<<"K","E">>, D(0 - 23559, 6), D(37906193, 6)>>,
      <<<<"K","I">>, D(0 - 3370417, 6), D(0 - 168734039, 6)>>,
      <<<<"K","P">>, D(40339852, 6), D(127510093, 6)>>,
      <<<<"K","R">>, D(35907757, 6), D(127766922, 6)>>,
      <<<<"K","W">>, D(2931166, 5), D(47481766, 6)>>,
      <<<<"K","G">>, D(4120438, 5), D(74766098, 6)>>,
      <<<<"L","A">>, D(1985627, 5), D(102495496, 6)>>,
      <<<<"L","V">>, D(56879635, 6), D(24603189, 6)>>,
      <<<<"L","B">>, D(33854721, 6), D(35862285, 6)>>,
      <<<<"L","S">>, D(0 - 29609988, 6), D(28233608, 6)>>,
      <<<<"L","R">>, D(6428055, 6), D(0 - 9429499, 6)>>,
      <<<<"L","Y">>, D(263351, 4), D(17228331, 6)>>,
      <<<<"L","I">>, D(47166, 3), D(9555373, 6)>>,
      <<<<"L","T">>, D(55169438, 6), D(23881275, 6)>>,
      <<<<"L","U">>, D(49815273, 6), D(6129583, 6)>>,
      <<<<"M","K">>, D(41512386, 6), D(21747419, 6)>>,
      <<<<"M","G">>, D(0 - 18766947, 6), D(46869107, 6)>>,
      <<<<"M","W">>, D(0 - 13254308, 6), D(34301525, 6)>>,
      <<<<"M","Y">>, D(4210484, 6), D(101975766, 6)>>,
      <<<<"M","V">>, D(3202778, 6), D(7322068, 5)>>,
      <<<<"M","L">>, D(17570692, 6), D(0 - 3996166, 6)>>,
      <<<<"M","T">>, D(35937496, 6), D(14375416, 6)>>,
      <<<<"M","R">>, D(2100789, 5), D(0 - 10940835, 6)>>,
      <<<<"M","U">>, D(0 - 20348404, 6), D(57552152, 6)>>,
      <<<<"M","X">>, D(23634501, 6), D(0 - 102552784, 6)>>,
      <<<<"M","D">>, D(47411631, 6), D(28369885, 6)>>,
      <<<<"M","C">>, D(43750298, 6), D(7412841, 6)>>,
      <<<<"M","N">>, D(46862496, 6), D(103846656, 6)>>,
      <<<<"M","E">>, D(42708678, 6), D(1937439, 5)>>,
      <<<<"M","A">>, D(31791702, 6), D(0 - 709262, 5)>>,
      <<<<"M","Z">>, D(0 - 18665695, 6), D(35529562, 6)>>,
      <<<<"M","M">>, D(21913965, 6), D(95956223, 6)>>,
      <<<<"N","A">>, D(0 - 2295764, 5), D(1849041, 5)>>,
      <<<<"N","P">>, D(28394857, 6), D(84124008, 6)>>,
      <<<<"N","L">>, D(52132633, 6), D(5291266, 6)>>,
      <<<<"N","Z">>, D(0 - 40900557, 6), D(174885971, 6)>>,
      <<<<"N","I">>, D(12865416, 6), D(0 - 85207229, 6)>>,
      <<<<"N","E">>, D(17607789, 6), D(8081666, 6)>>,
      <<<<"N","G">>, D(9081999, 6), D(8675277, 6)>>,
      <<<<"N","O">>, D(60472024, 6), D(8468946, 6)>>,
      <<<<"O","M">>, D(21512583, 6), D(55923255, 6)>>,
      <<<<"P","K">>, D(30375321, 6), D(69345116, 6)>>,
      <<<<"P","A">>, D(8537981, 6), D(0 - 80782127, 6)>>,
      <<<<"P","G">>, D(0 - 6314993, 6), D(14395555, 5)>>,
      <<<<"P","Y">>, D(0 - 23442503, 6), D(0 - 58443832, 6)>>,
      <<<<"P","E">>, D(0 - 9189967, 6), D(0 - 75015152, 6)>>,
      <<<<"P","H">>, D(12879721, 6), D(121774017, 6)>>,
      <<<<"P","L">>, D(51919438, 6), D(19145136, 6)>>,
      <<<<"P","T">>, D(39399872, 6), D(0 - 8224454, 6)>>,
      <<<<"Q","A">>, D(25354826, 6), D(51183884, 6)>>,
      <<<<"R","O">>, D(45943161, 6), D(2496676, 5)>>,
      <<<<"R","U">>, D(6152401, 5), D(105318756, 6)>>,
      <<<<"R","W">>, D(0 - 1940278, 6), D(29873888, 6)>>,
      <<<<"S","A">>, D(23885942, 6), D(45079162, 6)>>,
      <<<<"S","N">>, D(14497401, 6), D(0 - 14452362, 6)>>,
      <<<<"R","S">>, D(44016521, 6), D(21005859, 6)>>,
      <<<<"S","L">>, D(8460555, 6), D(0 - 11779889, 6)>>,
      <<<<"S","G">>, D(1352083, 6), D(103819836, 6)>>,
      <<<<"S","K">>, D(48669026, 6), D(19699024, 6)>>,
      <<<<"S","I">>, D(46151241, 6), D(14995463, 6)>>,
      <<<<"S","B">>, D(0 - 964571, 5), D(160156194, 6)>>,
      <<<<"S","O">>, D(5152149, 6), D(46199616, 6)>>,
      <<<<"Z","A">>, D(0 - 30559482, 6), D(22937506, 6)>>,
      <<<<"S","S">>, D(6876991, 6), D(31306978, 6)>>,
      <<<<"E","S">>, D(40463667, 6), D(0 - 374922, 5)>>,
      <<<<"L","K">>, D(7873054, 6), D(80771797, 6)>>,
      <<<<"S","D">>, D(12862807, 6), D(30217636, 6)>>,
      <<<<"S","R">>, D(3919305, 6), D(0 - 56027783, 6)>>,
      <<<<"S","Z">>, D(0 - 26522503, 6), D(31465866, 6)>>,
      <<<<"S","E">>, D(60128161, 6), D(18643501, 6)>>,
      <<<<"C","H">>, D(46818188, 6), D(8227512, 6)>>,
      <<<<"S","Y">>, D(34802075, 6), D(38996815, 6)>>,
      <<<<"T","W">>, D(2369781, 5), D(120960515, 6)>>,
      <<<<"T","J">>, D(38861034, 6), D(71276093, 6)>>,
      <<<<"T","Z">>, D(0 - 6369028, 6), D(34888822, 6)>>,
      <<<<"T","H">>, D(15870032, 6), D(100992541, 6)>>,
      <<<<"T","L">>, D(0 - 8874217, 6), D(125727539, 6)>>,
      <<<<"T","G">>, D(8619543, 6), D(824782, 6)>>,
      <<<<"T","N">>, D(33886917, 6), D(9537499, 6)>>,
      <<<<"T","R">>, D(38963745, 6), D(35243322, 6)>>,
      <<<<"T","M">>, D(38969719, 6), D(59556278, 6)>>,
      <<<<"U","G">>, D(1373333, 6), D(32290275, 6)>>,
      <<<<"U","A">>, D(48379433, 6), D(3116558, 5)>>,
      <<<<"A","E">>, D(23424076, 6), D(53847818, 6)>>,
      <<<<"G","B">>, D(55378051, 6), D(0 - 3435973, 6)>>,
      <<<<"U","S">>, D(3709024, 5), D(0 - 95712891, 6)>>,
      <<<<"U","Y">>, D(0 - 32522779, 6), D(0 - 55765835, 6)>>,
      <<<<"U","Z">>, D(41377491, 6), D(64585262, 6)>>,
      <<<<"V","U">>, D(0 - 15376706, 6), D(166959158, 6)>>,
      <<<<"V","E">>, D(642375, 5), D(0 - 6658973, 5)>>,
      <<<<"V","N">>, D(14058324, 6), D(108277199, 6)>>,
      <<<<"Y","E">>, D(15552727, 6), D(48516388, 6)>>,
      <<<<"Z","M">>, D(0 - 13133897, 6), D(27849332, 6)>>,
      <<<<"Z","W">>, D(0 - 19015438, 6), D(29154857, 6)>>,
      <<<<"A","F","G">>, D(3393911, 5), D(67709953, 6)>>,
      <<<<"A","L","B">>, D(41153332, 6), D(20168331, 6)>>,
      <<<<"D","Z","A">>, D(28033886, 6), D(1659626, 6)>>,
      <<<<"A","N","D">>, D(42546245, 6), D(1601554, 6)>>,
      <<<<"A","G","O">>, D(0 - 11202692, 6), D(17873887, 6)>>,
      <<<<"A","R","G">>, D(0 - 38416097, 6), D(0 - 63616672, 6)>>,
      <<<<"A","R","M">>, D(40069099, 6), D(45038189, 6)>>,
      <<<<"A","U","S">>, D(0 - 25274398, 6), D(133775136, 6)>>,
      <<<<"A","U","T">>, D(47516231, 6), D(14550072, 6)>>,
      <<<<"A","Z","E">>, D(40143105, 6), D(47576927, 6)>>,
      <<<<"B","H","S">>, D(2503428, 5), D(0 - 7739628, 5)>>,
      <<<<"B","H","R">>, D(260667, 4), D(505577, 4)>>,
      <<<<"B","G","D">>, D(23684994, 6), D(90356331, 6)>>,
      <<<<"B","L","R">>, D(53709807, 6), D(27953389, 6)>>,
      <<<<"B","E","L">>, D(50503887, 6), D(4469936, 6)>>,
      <<<<"B","L","Z">>, D(17189877, 6), D(0 - 8849765, 5)>>,
      <<<<"B","E","N">>, D(930769, 5), D(2315834, 6)>>,
      <<<<"B","T","N">>, D(27514162, 6), D(90433601, 6)>>,
      <<<<"B","O","L">>, D(0 - 16290154, 6), D(0 - 63588653, 6)>>,
      <<<<"B","I","H">>, D(43915886, 6), D(17679076, 6)>>,
      <<<<"B","W","A">>, D(0 - 22328474, 6), D(24684866, 6)>>,
      <<<<"B","R","A">>, D(0 - 14235004, 6), D(0 - 5192528, 5)>>,
      <<<<"B","R","N">>, D(4535277, 6), D(114727669, 6)>>,
      <<<<"B","G","R">>, D(42733883, 6), D(2548583, 5)>>,
      <<<<"B","F","A">>, D(12238333, 6), D(0 - 1561593, 6)>>,
      <<<<"B","D","I">>, D(0 - 3373056, 6), D(29918886, 6)>>,
      <<<<"K","H","M">>, D(12565679, 6), D(104990963, 6)>>,
      <<<<"C","M","R">>, D(7369722, 6), D(12354722, 6)>>,
      <<<<"C","A","N">>, D(56130366, 6), D(0 - 106346771, 6)>>,
      <<<<"C","P","V">>, D(16002082, 6), D(0 - 24013197, 6)>>,
      <<<<"C","A","F">>, D(6611111, 6), D(20939444, 6)>>,
      <<<<"T","C","D">>, D(15454166, 6), D(18732207, 6)>>,
      <<<<"C","H","L">>, D(0 - 35675147, 6), D(0 - 71542969, 6)>>,
      <<<<"C","H","N">>, D(3586166, 5), D(104195397, 6)>>,
      <<<<"C","O","L">>, D(4570868, 6), D(0 - 74297333, 6)>>,
      <<<<"C","O","M">>, D(0 - 11875001, 6), D(43872219, 6)>>,
      <<<<"C","O","G">>, D(0 - 228021, 6), D(15827659, 6)>>,
      <<<<"C","O","D">>, D(0 - 4038333, 6), D(21758664, 6)>>,
      <<<<"C","R","I">>, D(9748917, 6), D(0 - 83753428, 6)>>,
      <<<<"C","I","V">>, D(7539989, 6), D(0 - 554708, 5)>>,
      <<<<"H","R","V">>, D(451, 1), D(152, 1)>>,
      <<<<"C","U","B">>, D(21521757, 6), D(0 - 77781167, 6)>>,
      <<<<"C","Y","P">>, D(35126413, 6), D(33429859, 6)>>,
      <<<<"C","Z","E">>, D(49817492, 6), D(15472962, 6)>>,
      <<<<"D","N","K">>, D(5626392, 5), D(9501785, 6)>>,
      <<<<"D","J","I">>, D(11825138, 6), D(42590275, 6)>>,
      <<<<"D","M","A">>, D(15414999, 6), D(0 - 61370976, 6)>>,
      <<<<"D","O","M">>, D(18735693, 6), D(0 - 70162651, 6)>>,
      <<<<"E","C","U">>, D(0 - 1831239, 6), D(0 - 78183406, 6)>>,
      <<<<"E","G","Y">>, D(26820553, 6), D(30802498, 6)>>,
      <<<<"S","L","V">>, D(13794185, 6), D(0 - 8889653, 5)>>,
      <<<<"G","N","Q">>, D(1650801, 6), D(10267895, 6)>>,
      <<<<"E","R","I">>, D(15179384, 6), D(39782334, 6)>>,
      <<<<"E","S","T">>, D(58595272, 6), D(25013607, 6)>>,
      <<<<"E","T","H">>, D(9145, 3), D(40489673, 6)>>,
      <<<<"F","J","I">>, D(0 - 17713371, 6), D(178065032, 6)>>,
      <<<<"F","I","N">>, D(6192411, 5), D(25748151, 6)>>,
      <<<<"F","R","A">>, D(46227638, 6), D(2213749, 6)>>,
      <<<<"G","A","B">>, D(0 - 803689, 6), D(11609444, 6)>>,
      <<<<"G","M","B">>, D(13443182, 6), D(0 - 15310139, 6)>>,
      <<<<"G","E","O">>, D(42315407, 6), D(43356892, 6)>>,
      <<<<"D","E","U">>, D(51165691, 6), D(10451526, 6)>>,
      <<<<"G","H","A">>, D(7946527, 6), D(0 - 1023194, 6)>>,
      <<<<"G","R","C">>, D(39074208, 6), D(21824312, 6)>>,
      <<<<"G","T","M">>, D(15783471, 6), D(0 - 90230759, 6)>>,
      <<<<"G","I","N">>, D(9945587, 6), D(0 - 9696645, 6)>>,
      <<<<"G","N","B">>, D(11803749, 6), D(0 - 15180413, 6)>>,
      <<<<"G","U","Y">>, D(4860416, 6), D(0 - 5893018, 5)>>,
      <<<<"H","T","I">>, D(18971187, 6), D(0 - 72285215, 6)>>,
      <<<<"H","N","D">>, D(15199999, 6), D(0 - 86241905, 6)>>,
      <<<<"H","U","N">>, D(47162494, 6), D(19503304, 6)>>,
      <<<<"I","S","L">>, D(64963051, 6), D(0 - 19020835, 6)>>,
      <<<<"I","N","D">>, D(20593684, 6), D(7896288, 5)>>,
      <<<<"I","D","N">>, D(0 - 789275, 6), D(113921327, 6)>>,
      <<<<"I","R","N">>, D(32427908, 6), D(53688046, 6)>>,
      <<<<"I","R","Q">>, D(33223191, 6), D(43679291, 6)>>,
      <<<<"I","R","L">>, D(5341291, 5), D(0 - 824389, 5)>>,
      <<<<"I","S","R">>, D(31046051, 6), D(34851612, 6)>>,
      <<<<"I","T","A">>, D(4187194, 5), D(1256738, 5)>>,
      <<<<"J","A","M">>, D(18109581, 6), D(0 - 77297508, 6)>>,
      <<<<"J","P","N">>, D(36204824, 6), D(138252924, 6)>>,
      <<<<"J","O","R">>, D(30585164, 6), D(36238414, 6)>>,
      <<<<"K","A","Z">>, D(48019573, 6), D(66923684, 6)>>,
      <<<<"K","E","N">>, D(0 - 23559, 6), D(37906193, 6)>>,
      <<<<"K","I","R">>, D(0 - 3370417, 6), D(0 - 168734039, 6)>>,
      <<<<"P","R","K">>, D(40339852, 6), D(127510093, 6)>>,
      <<<<"K","O","R">>, D(35907757, 6), D(127766922, 6)>>,
      <<<<"K","W","T">>, D(2931166, 5), D(47481766, 6)>>,
      <<<<"K","G","Z">>, D(4120438, 5), D(74766098, 6)>>,
      <<<<"L","A","O">>, D(1985627, 5), D(102495496, 6)>>,
      <<<<"L","V","A">>, D(56879635, 6), D(24603189, 6)>>,
      <<<<"L","B","N">>, D(33854721, 6), D(35862285, 6)>>,
      <<<<"L","S","O">>, D(0 - 29609988, 6), D(28233608, 6)>>,
      <<<<"L","B","R">>, D(6428055, 6), D(0 - 9429499, 6)>>,
      <<<<"L","B","Y">>, D(263351, 4), D(17228331, 6)>>,
      <<<<"L","I","E">>, D(47166, 3), D(9555373, 6)>>,
      <<<<"L","T","U">>, D(55169438, 6), D(23881275, 6)>>,
      <<<<"L","U","X">>, D(49815273, 6), D(6129583, 6)>>,
      <<<<"M","K","D">>, D(41512386, 6), D(21747419, 6)>>,
      <<<<"M","D","G">>, D(0 - 18766947, 6), D(46869107, 6)>>,
      <<<<"M","W","I">>, D(0 - 13254308, 6), D(34301525, 6)>>,
      <<<<"M","Y","S">>, D(4210484, 6), D(101975766, 6)>>,
      <<<<"M","D","V">>, D(3202778, 6), D(7322068, 5)>>,
      <<<<"M","L","I">>, D(17570692, 6), D(0 - 3996166, 6)>>,
      <<<<"M","L","T">>, D(35937496, 6), D(14375416, 6)>>,
      <<<<"M","R","T">>, D(2100789, 5), D(0 - 10940835, 6)>>,
      <<<<"M","U","S">>, D(0 - 20348404, 6), D(57552152, 6)>>,
      <<<<"M","E","X">>, D(23634501, 6), D(0 - 102552784, 6)>>,
      <<<<"M","D","A">>, D(47411631, 6), D(28369885, 6)>>,
      <<<<"M","C","O">>, D(43750298, 6), D(7412841, 6)>>,
      <<<<"M","N","G">>, D(46862496, 6), D(103846656, 6)>>,
      <<<<"M","N","E">>, D(42708678, 6), D(1937439, 5)>>,
      <<<<"M","A","R">>, D(31791702, 6), D(0 - 709262, 5)>>,
      <<<<"M","O","Z">>, D(0 - 18665695, 6), D(35529562, 6)>>,
      <<<<"M","M","R">>, D(21913965, 6), D(95956223, 6)>>,
      <<<<"N","A","M">>, D(0 - 2295764, 5), D(1849041, 5)>>,
      <<<<"N","P","L">>, D(28394857, 6), D(84124008, 6)>>,
      <<<<"N","L","D">>, D(52132633, 6), D(5291266, 6)>>,
      <<<<"N","Z","L">>, D(0 - 40900557, 6), D(174885971, 6)>>,
      <<<<"N","I","C">>, D(12865416, 6), D(0 - 85207229, 6)>>,
      <<<<"N","E","R">>, D(17607789, 6), D(8081666, 6)>>,
      <<<<"N","G","A">>, D(9081999, 6), D(8675277, 6)>>,
      <<<<"N","O","R">>, D(60472024, 6), D(8468946, 6)>>,
      <<<<"O","M","N">>, D(21512583, 6), D(55923255, 6)>>,
      <<<<"P","A","K">>, D(30375321, 6), D(69345116, 6)>>,
      <<<<"P","A","N">>, D(8537981, 6), D(0 - 80782127, 6)>>,
      <<<<"P","N","G">>, D(0 - 6314993, 6), D(14395555, 5)>>,
      <<<<"P","R","Y">>, D(0 - 23442503, 6), D(0 - 58443832, 6)>>,
      <<<<"P","E","R">>, D(0 - 9189967, 6), D(0 - 75015152, 6)>>,
      <<<<"P","H","L">>, D(12879721, 6), D(121774017, 6)>>,
      <<<<"P","O","L">>, D(51919438, 6), D(19145136, 6)>>,
      <<<<"P","R","T">>, D(39399872, 6), D(0 - 8224454, 6)>>,
      <<<<"Q","A","T">>, D(25354826, 6), D(51183884, 6)>>,
      <<<<"R","O","U">>, D(45943161, 6), D(2496676, 5)>>,
      <<<<"R","U","S">>, D(6152401, 5), D(105318756, 6)>>,
      <<<<"R","W","A">>, D(0 - 1940278, 6), D(29873888, 6)>>,
      <<<<"S","A","U">>, D(23885942, 6), D(45079162, 6)>>,
      <<<<"S","E","N">>, D(14497401, 6), D(0 - 14452362, 6)>>,
      <<<<"S","R","B">>, D(44016521, 6), D(21005859, 6)>>,
      <<<<"S","L","E">>, D(8460555, 6), D(0 - 11779889, 6)>>,
      <<<<"S","G","P">>, D(1352083, 6), D(103819836, 6)>>,
      <<<<"S","V","K">>, D(48669026, 6), D(19699024, 6)>>,
      <<<<"S","V","N">>, D(46151241, 6), D(14995463, 6)>>,
      <<<<"S","L","B">>, D(0 - 964571, 5), D(160156194, 6)>>,
      <<<<"S","O","M">>, D(5152149, 6), D(46199616, 6)>>,
      <<<<"Z","A","F">>, D(0 - 30559482, 6), D(22937506, 6)>>,
      <<<<"S","S","D">>, D(6876991, 6), D(31306978, 6)>>,
      <<<<"E","S","P">>, D(40463667, 6), D(0 - 374922, 5)>>,
      <<<<"L","K","A">>, D(7873054, 6), D(80771797, 6)>>,
      <<<<"S","D","N">>, D(12862807, 6), D(30217636, 6)>>,
      <<<<"S","U","R">>, D(3919305, 6), D(0 - 56027783, 6)>>,
      <<<<"S","W","Z">>, D(0 - 26522503, 6), D(31465866, 6)>>,
      <<<<"S","W","E">>, D(60128161, 6), D(18643501, 6)>>,
      <<<<"C","H","E">>, D(46818188, 6), D(8227512, 6)>>,
      <<<<"S","Y","R">>, D(34802075, 6), D(38996815, 6)>>,
      <<<<"T","W","N">>, D(2369781, 5), D(120960515, 6)>>,
      <<<<"T","J","K">>, D(38861034, 6), D(71276093, 6)>>,
      <<<<"T","Z","A">>, D(0 - 6369028, 6), D(34888822, 6)>>,
      <<<<"T","H","A">>, D(15870032, 6), D(100992541, 6)>>,
      <<<<"T","L","S">>, D(0 - 8874217, 6), D(125727539, 6)>>,
      <<<<"T","G","O">>, D(8619543, 6), D(824782, 6)>>,
      <<<<"T","U","N">>, D(33886917, 6), D(9537499, 6)>>,
      <<<<"T","U","R">>, D(38963745, 6), D(35243322, 6)>>,
      <<<<"T","K","M">>, D(38969719, 6), D(59556278, 6)>>,
      <<<<"U","G","A">>, D(1373333, 6), D(32290275, 6)>>,
      <<<<"U","K","R">>, D(48379433, 6), D(3116558, 5)>>,
      <<<<"A","R","E">>, D(23424076, 6), D(53847818, 6)>>,
      <<<<"G","B","R">>, D(55378051, 6), D(0 - 3435973, 6)>>,
      <<<<"U","S","A">>, D(3709024, 5), D(0 - 95712891, 6)>>,
      <<<<"U","R","Y">>, D(0 - 32522779, 6), D(0 - 55765835, 6)>>,
      <<<<"U","Z","B">>, D(41377491, 6), D(64585262, 6)>>,
      <<<<"V","U","T">>, D(0 - 15376706, 6), D(166959158, 6)>>,
      <<<<"V","E","N">>, D(642375, 5), D(0 - 6658973, 5)>>,
      <<<<"V","N","M">>, D(14058324, 6), D(108277199, 6)>>,
      <<<<"Y","E","M">>, D(15552727, 6), D(48516388, 6)>>,
      <<<<"Z","M","B">>, D(0 - 13133897, 6), D(27849332, 6)>>,
      <<<<"Z","W","E">>, D(0 - 19015438, 6), D(29154857, 6)>>,
      <<<<"4">>, D(3393911, 5), D(67709953, 6)>>,
      <<<<"8">>, D(41153332, 6), D(20168331, 6)>>,
      <<<<"1","2">>, D(28033886, 6), D(1659626, 6)>>,
      <<<<"3","6">>, D(0 - 25274398, 6), D(133775136, 6)>>,
      <<<<"4","0">>, D(47516231, 6), D(14550072, 6)>>,
      <<<<"5","0">>, D(23684994, 6), D(90356331, 6)>>,
      <<<<"7","6">>, D(0 - 14235004, 6), D(0 - 5192528, 5)>>,
      <<<<"1","2","4">>, D(56130366, 6), D(0 - 106346771, 6)>>,
      <<<<"1","5","6">>, D(3586166, 5), D(104195397, 6)>>,
      <<<<"2","5","0">>, D(46227638, 6), D(2213749, 6)>>,
      <<<<"2","7","6">>, D(51165691, 6), D(10451526, 6)>>,
      <<<<"3","5","6">>, D(20593684, 6), D(7896288, 5)>>,
      <<<<"3","6","0">>, D(0 - 789275, 6), D(113921327, 6)>>,
      <<<<"3","9","2">>, D(36204824, 6), D(138252924, 6)>>,
      <<<<"4","1","0">>, D(35907757, 6), D(127766922, 6)>>,
      <<<<"4","8","4">>, D(23634501, 6), D(0 - 102552784, 6)>>,
      <<<<"5","2","8">>, D(52132633, 6), D(5291266, 6)>>,
      <<<<"6","4","3">>, D(6152401, 5), D(105318756, 6)>>,
      <<<<"7","1","0">>, D(0 - 30559482, 6), D(22937506, 6)>>,
      <<<<"8","2","6">>, D(55378051, 6), D(0 - 3435973, 6)>>,
      <<<<"8","4","0">>, D(3709024, 5), D(0 - 95712891, 6)>> }

INDONESIA_PROVINCES ==
    { <<<<"A","C","E","H">>, D(4695135, 6), D(96749399, 6)>>,
      <<<<"S","U","M","A","T","E","R","A"," ","U","T","A","R","A">>, D(2115355, 6), D(99545097, 6)>>,
      <<<<"S","U","M","A","T","E","R","A"," ","B","A","R","A","T">>, D(0 - 739940, 6), D(100800005, 6)>>,
      <<<<"R","I","A","U">>, D(293347, 6), D(101706829, 6)>>,
      <<<<"J","A","M","B","I">>, D(0 - 1610123, 6), D(103613120, 6)>>,
      <<<<"S","U","M","A","T","E","R","A"," ","S","E","L","A","T","A","N">>, D(0 - 3319437, 6), D(103914399, 6)>>,
      <<<<"B","E","N","G","K","U","L","U">>, D(0 - 3577847, 6), D(102346388, 6)>>,
      <<<<"L","A","M","P","U","N","G">>, D(0 - 4558585, 6), D(105406808, 6)>>,
      <<<<"K","E","P","U","L","A","U","A","N"," ","B","A","N","G","K","A"," ","B","E","L","I","T","U","N","G">>, D(0 - 2741051, 6), D(106440587, 6)>>,
      <<<<"K","E","P","U","L","A","U","A","N"," ","R","I","A","U">>, D(3945651, 6), D(108142867, 6)>>,
      <<<<"D","K","I"," ","J","A","K","A","R","T","A">>, D(0 - 6214620, 6), D(106845130, 6)>>,
      <<<<"J","A","W","A"," ","B","A","R","A","T">>, D(0 - 6920432, 6), D(107603708, 6)>>,
      <<<<"J","A","W","A"," ","T","E","N","G","A","H">>, D(0 - 7150975, 6), D(110140259, 6)>>,
      <<<<"D","I"," ","Y","O","G","Y","A","K","A","R","T","A">>, D(0 - 7875385, 6), D(110426209, 6)>>,
      <<<<"J","A","W","A"," ","T","I","M","U","R">>, D(0 - 7536064, 6), D(112238402, 6)>>,
      <<<<"B","A","N","T","E","N">>, D(0 - 6405817, 6), D(106064018, 6)>>,
      <<<<"B","A","L","I">>, D(0 - 8409518, 6), D(115188916, 6)>>,
      <<<<"N","U","S","A"," ","T","E","N","G","G","A","R","A"," ","B","A","R","A","T">>, D(0 - 8652933, 6), D(117361648, 6)>>,
      <<<<"N","U","S","A"," ","T","E","N","G","G","A","R","A"," ","T","I","M","U","R">>, D(0 - 8657382, 6), D(121079370, 6)>>,
      <<<<"K","A","L","I","M","A","N","T","A","N"," ","B","A","R","A","T">>, D(0 - 278781, 6), D(111475285, 6)>>,
      <<<<"K","A","L","I","M","A","N","T","A","N"," ","T","E","N","G","A","H">>, D(0 - 1681488, 6), D(113382355, 6)>>,
      <<<<"K","A","L","I","M","A","N","T","A","N"," ","S","E","L","A","T","A","N">>, D(0 - 3092642, 6), D(115283759, 6)>>,
      <<<<"K","A","L","I","M","A","N","T","A","N"," ","T","I","M","U","R">>, D(538659, 6), D(116419389, 6)>>,
      <<<<"K","A","L","I","M","A","N","T","A","N"," ","U","T","A","R","A">>, D(3073093, 6), D(116041389, 6)>>,
      <<<<"S","U","L","A","W","E","S","I"," ","U","T","A","R","A">>, D(624693, 6), D(123975002, 6)>>,
      <<<<"S","U","L","A","W","E","S","I"," ","T","E","N","G","A","H">>, D(0 - 1430025, 6), D(121445618, 6)>>,
      <<<<"S","U","L","A","W","E","S","I"," ","S","E","L","A","T","A","N">>, D(0 - 3668799, 6), D(119974053, 6)>>,
      <<<<"S","U","L","A","W","E","S","I"," ","T","E","N","G","G","A","R","A">>, D(0 - 4144910, 6), D(122174605, 6)>>,
      <<<<"G","O","R","O","N","T","A","L","O">>, D(699937, 6), D(122446724, 6)>>,
      <<<<"S","U","L","A","W","E","S","I"," ","B","A","R","A","T">>, D(0 - 2844137, 6), D(119232078, 6)>>,
      <<<<"M","A","L","U","K","U">>, D(0 - 3238462, 6), D(130145273, 6)>>,
      <<<<"M","A","L","U","K","U"," ","U","T","A","R","A">>, D(1570999, 6), D(127808769, 6)>>,
      <<<<"P","A","P","U","A"," ","B","A","R","A","T">>, D(0 - 1336115, 6), D(133174716, 6)>>,
      <<<<"P","A","P","U","A">>, D(0 - 4269928, 6), D(138080353, 6)>>,
      <<<<"P","A","P","U","A"," ","T","E","N","G","A","H">>, D(0 - 40, 1), D(1360, 1)>>,
      <<<<"P","A","P","U","A"," ","P","E","G","U","N","U","N","G","A","N">>, D(0 - 40, 1), D(1395, 1)>>,
      <<<<"P","A","P","U","A"," ","S","E","L","A","T","A","N">>, D(0 - 70, 1), D(1390, 1)>>,
      <<<<"P","A","P","U","A"," ","B","A","R","A","T"," ","D","A","Y","A">>, D(0 - 10, 1), D(1315, 1)>> }

\* key in table
has_key(table, key) == \E e \in table : e[1] = key

\* a variant that hands out the pair of a three-letter key transposed
centroid_transposed(table, key) ==
    LET e == CHOOSE e \in table : e[1] = key
    IN  IF Len(key) = 3 THEN <<e[3], e[2]>> ELSE <<e[2], e[3]>>

\* table[key] as <<lat, lon>>
centroid(table, key) == LET e == CHOOSE e \in table : e[1] = key IN <<e[2], e[3]>>

\* ---------------------------------------------------------------------
\* process_csv: column detection
\* ---------------------------------------------------------------------

lat_candidates == {"latitude", "lat", "y", "LAT", "Latitude", "LATITUDE"}

lon_candidates == {"longitude", "lon", "lng", "x", "long", "LON", "Longitude", "LONGITUDE"}

csv_country_candidates ==
    {"REF_AREA", "REF_AREA_ISO2", "REF_AREA_ISO3", "ISO2", "ISO3",
     "country_code", "CountryCode", "COUNTRY", "Country", "country",
     "iso_code", "ISO_CODE", "iso2", "iso3", "code", "Code"}

csv_indo_candidates ==
    {"provinsi", "PROVINSI", "province", "Province", "daerah", "DAERAH", "wilayah", "WILAYAH"}

\* lat_col / lon_col after auto-detection
csv_lat_col(hs, lat) == IF ~Truthy(lat) THEN first_in(hs, lat_candidates) ELSE lat

csv_lon_col(hs, lon) == IF ~Truthy(lon) THEN first_in(hs, lon_candidates) ELSE lon

\* the geocoding column and mode, when lat/lon are not both known
csv_region(hs) ==
    LET indo_col == first_in(hs, csv_indo_candidates)
        ccol     == first_in(hs, csv_country_candidates)
    IN  IF Truthy(indo_col)
        THEN [country_col |-> indo_col, use_indo_geocoding |-> TRUE, use_country_geocoding |-> FALSE]
        ELSE IF Truthy(ccol)
        THEN [country_col |-> ccol, use_indo_geocoding |-> FALSE, use_country_geocoding |-> TRUE]
        ELSE [country_col |-> ccol, use_indo_geocoding |-> FALSE, use_country_geocoding |-> FALSE]

err_no_columns(hs) ==
    [text |-> "Kolom lat/lon, kode negara, atau provinsi tidak ditemukan. Headers: {headers}",
     column |-> None, names_headers |-> TRUE, headers |-> hs]

\* ---------------------------------------------------------------------
\* process_csv: one row of the feature loop
\* ---------------------------------------------------------------------

\* float(row.get(col, 0))
csv_coord(row, col) == IF col \in DOMAIN row THEN float(row[col]) ELSE Zero

\* a variant that keeps the rows at latitude 0, longitude 0
is_sentinel_never(lat, lon) == FALSE

\* lat == 0 and lon == 0
is_sentinel(lat, lon) == FloatEq(lat, Zero) /\ FloatEq(lon, Zero)

Skip == [kind |-> "skip", lat |-> Zero, lon |-> Zero, token |-> <<>>]

Unknown(token) == [kind |-> "unknown", lat |-> Zero, lon |-> Zero, token |-> token]

At(ll) == [kind |-> "point", lat |-> ll[1], lon |-> ll[2], token |-> <<>>]

\* the coordinates of a row: a point, an unknown token for the skip-set,
\* or a skip (sentinel zero, ValueError or TypeError)
csv_row_locate(row, lat, lon, ccol, indo, country) ==
    IF indo
    THEN LET raw_val   == upper(strip(row[ccol]))
             clean_val == strip(replace(raw_val, w_PROVINSI, <<>>))
         IN  IF has_key(INDONESIA_PROVINCES, clean_val) THEN At(centroid(INDONESIA_PROVINCES, clean_val))
             ELSE IF has_key(INDONESIA_PROVINCES, raw_val) THEN At(centroid(INDONESIA_PROVINCES, raw_val))
             ELSE Unknown(raw_val)
    ELSE IF country
    THEN LET country_code == upper(strip(row[ccol]))
         IN  IF has_key(COUNTRY_CENTROIDS, country_code) THEN At(centroid(COUNTRY_CENTROIDS, country_code))
             ELSE Unknown(country_code)
    ELSE LET la == csv_coord(row, lat)
             lo == csv_coord(row, lon)
         IN  IF la.k = "ValueError" \/ lo.k = "ValueError" THEN Skip
             ELSE IF is_sentinel(la, lo) THEN Skip
             ELSE At(<<la, lo>>)

\* the properties of a feature
csv_properties(row, lat, lon, geocoded, popup) ==
    LET exclude_cols == IF ~geocoded THEN {lat, lon} ELSE {}
        kept         == DOMAIN row \ exclude_cols
        with_popup   == Truthy(popup) /\ popup \in DOMAIN row
    IN  [k \in kept \cup (IF with_popup THEN {"_popup"} ELSE {}) |->
            IF k = "_popup" /\ with_popup THEN row[popup] ELSE row[k]]

csv_feature(row, loc, lat, lon, geocoded, popup) ==
    [type |-> "Feature",
     coordinates |-> <<loc.lon, loc.lat>>,
     properties |-> csv_properties(row, lat, lon, geocoded, popup)]

\* ---------------------------------------------------------------------
\* process_csv: the job
\* ---------------------------------------------------------------------

\* "if not features"
no_features(fs) == fs = <<>>

\* lines 721-774: open the file, detect the columns
CsvDetect ==
    /\ upload_type = "csv"
    /\ pc = "start"
    /\ LET la  == csv_lat_col(headers, lat_col)
           lo  == csv_lon_col(headers, lon_col)
           reg == csv_region(headers)
       IN  /\ lat_col' = la
           /\ lon_col' = lo
           /\ IF ~Truthy(la) \/ ~Truthy(lo)
              THEN /\ country_col' = reg.country_col
                   /\ use_indo_geocoding' = reg.use_indo_geocoding
                   /\ use_country_geocoding' = reg.use_country_geocoding
                   /\ IF reg.use_indo_geocoding \/ reg.use_country_geocoding
                      THEN /\ conversion_tasks' = [conversion_tasks EXCEPT ![task_id] = Converting(20)]
                           /\ files' = files
                           /\ pc' = "rows"
                      ELSE /\ conversion_tasks' = [conversion_tasks EXCEPT ![task_id] =
                                                      Error(err_no_columns(headers))]
                           /\ files' = files \ {"csv"}
                           /\ pc' = "returned"
              ELSE /\ country_col' = None
                   /\ use_indo_geocoding' = FALSE
                   /\ use_country_geocoding' = FALSE
                   /\ conversion_tasks' = [conversion_tasks EXCEPT ![task_id] = Converting(30)]
                   /\ files' = files
                   /\ pc' = "rows"
    /\ features' = <<>>
    /\ skipped_countries' = {}
    /\ UNCHANGED <<inputVars, year_col, value_col, use_indo_geojson, accVars, outVars,
                   r2_bucket, map_layers, i>>
    /\ UNCHANGED otherVars

\* lines 776-826: one iteration of the feature loop
CsvRow ==
    /\ upload_type = "csv"
    /\ pc = "rows"
    /\ i < Len(rows)
    /\ LET row == rows[i + 1]
           loc == csv_row_locate(row, lat_col, lon_col, country_col,
                                 use_indo_geocoding, use_country_geocoding)
       IN  /\ features' = IF loc.kind = "point"
                          THEN Append(features,
                                      csv_feature(row, loc, lat_col, lon_col,
                                                  use_country_geocoding \/ use_indo_geocoding,
                                                  popup_col))
                          ELSE features
           /\ skipped_countries' = IF loc.kind = "unknown"
                                   THEN skipped_countries \cup {loc.token}
                                   ELSE skipped_countries
    /\ i' = i + 1
    /\ UNCHANGED <<inputVars, colVars, accVars, outVars, extVars, pc, conversion_tasks>>
    /\ UNCHANGED otherVars

\* lines 828-849: empty check, then build the collection and dump it
CsvBuild ==
    /\ upload_type = "csv"
    /\ pc = "rows"
    /\ i = Len(rows)
    /\ IF no_features(features)
       THEN /\ conversion_tasks' = [conversion_tasks EXCEPT ![task_id] =
                                       Error(Message("Tidak ada data valid ditemukan"))]
            /\ files' = files \ {"csv"}
            /\ geojson' = geojson
            /\ pc' = "returned"
       ELSE /\ conversion_tasks' = [conversion_tasks EXCEPT ![task_id] = Converting(60)]
            /\ geojson' = [type |-> "FeatureCollection", features |-> features]
            /\ files' = files \cup {"json"}
            /\ pc' = "upload"
    /\ UNCHANGED <<inputVars, colVars, accVars, pointVars, years, geojson_filename,
                   choropleth_data, r2_bucket, map_layers, i>>
    /\ UNCHANGED otherVars

\* lines 851-895: upload to R2 and insert the catalog row
CsvUpload ==
    /\ upload_type = "csv"
    /\ pc = "upload"
    /\ \E raises \in {"no", "upload_file", "put_object"}, layer_id \in {None, "uuid"} :
         IF ~r2_client
         THEN /\ conversion_tasks' = [conversion_tasks EXCEPT ![task_id] = Error(Message("R2 tidak terhubung"))]
              /\ UNCHANGED <<r2_bucket, map_layers>>
         ELSE IF raises = "upload_file"
         THEN /\ conversion_tasks' = [conversion_tasks EXCEPT ![task_id] = Error(Message("Upload error: {str(e)}"))]
              /\ UNCHANGED <<r2_bucket, map_layers>>
         ELSE IF raises = "put_object"
         THEN /\ conversion_tasks' = [conversion_tasks EXCEPT ![task_id] = Error(Message("Upload error: {str(e)}"))]
              /\ r2_bucket' = r2_bucket \cup {[key |-> "data.geojson", body |-> geojson]}
              /\ UNCHANGED map_layers
         ELSE /\ r2_bucket' = r2_bucket \cup {[key |-> "data.geojson", body |-> geojson]}
              /\ map_layers' = IF layer_id # None THEN map_layers \cup {"geojson"} ELSE map_layers
              /\ conversion_tasks' = [conversion_tasks EXCEPT ![task_id] =
                     IF layer_id # None THEN Done
                     ELSE Error(Message("R2 upload OK, tapi D1 gagal menyimpan metadata"))]
    /\ pc' = "cleanup"
    /\ UNCHANGED <<inputVars, colVars, accVars, pointVars, outVars, files, i>>
    /\ UNCHANGED otherVars

\* lines 897-903: remove the temporary file and the upload; os.remove of
\* the upload is inside the try block, so its exception reaches line 903
CsvCleanup ==
    /\ upload_type = "csv"
    /\ pc = "cleanup"
    /\ \E outcome \in RemoveOutcomes :
          /\ files' = IF outcome = "denied" THEN files \ {"json"} ELSE files \ {"json", "csv"}
          /\ conversion_tasks' =
                IF outcome = "removed"
                THEN conversion_tasks
                ELSE [conversion_tasks EXCEPT ![task_id] = Error(Message("str(e)"))]
    /\ pc' = "returned"
    /\ UNCHANGED <<inputVars, colVars, accVars, pointVars, outVars, r2_bucket, map_layers, i>>
    /\ UNCHANGED otherVars

\* ---------------------------------------------------------------------
\* generate_smart_insight (correlation.py).  Correlations, MI and
\* p-values are integers in thousandths.
\* ---------------------------------------------------------------------

abs(x) == IF x < 0 THEN 0 - x ELSE x

SIG_THRESHOLD == 300

NON_LINEAR_DIFF == 80

\* the four relationship types
T_none      == "No significant relationship"
T_monotonic == "Non-linear monotonic relationship"
T_complex   == "Non-linear complex relationship"
T_linear    == "Linear relationship"

\* "Non-linear" in relationship_type
is_non_linear(t) == t \in {T_monotonic, T_complex}

\* "Moderate" in strength: a substring test, true of "Moderate-Strong" too
contains_Moderate(st) == st \in {"Moderate", "Moderate-Strong"}

\* a variant that tests for the complex type before the monotonic type
classify_complexfirst(r, rho, mi) ==
    IF abs(r) < SIG_THRESHOLD /\ abs(rho) < SIG_THRESHOLD /\ mi < 200 THEN T_none
    ELSE IF mi > 400 /\ abs(r) < 300 THEN T_complex
    ELSE IF abs(rho) > abs(r) + NON_LINEAR_DIFF THEN T_monotonic
    ELSE T_linear

\* lines 64-71: the relationship type
classify(r, rho, mi) ==
    IF abs(r) < SIG_THRESHOLD /\ abs(rho) < SIG_THRESHOLD /\ mi < 200 THEN T_none
    ELSE IF abs(rho) > abs(r) + NON_LINEAR_DIFF THEN T_monotonic
    ELSE IF mi > 400 /\ abs(r) < 300 THEN T_complex
    ELSE T_linear

\* lines 75-83: the strength of the primary score
strength_of(t, r, rho) ==
    LET primary_score == IF is_non_linear(t) THEN abs(rho) ELSE abs(r)
    IN  IF primary_score > 700 THEN "Strong"
        ELSE IF primary_score > 500 THEN "Moderate-Strong"
        ELSE IF primary_score > 300 THEN "Moderate"
        ELSE "Weak"

\* lines 112-114: the direction
direction_of(t, r, rho) ==
    IF is_non_linear(t) /\ abs(rho) > abs(r)
    THEN (IF rho > 0 THEN "positive" ELSE "negative")
    ELSE (IF r > 0 THEN "positive" ELSE "negative")

\* lines 162-166: the confidence before the outlier check
base_confidence(nn, p, st) ==
    IF nn < 15 \/ p > 50 THEN "Low"
    ELSE IF nn < 30 \/ contains_Moderate(st) THEN "Medium"
    ELSE "High"

\* lines 169-170: the outlier check lowers High to Medium
outlier_confidence(c, influential) ==
    IF influential /\ c = "High" THEN "Medium" ELSE c

\* outlier_warning holds the "Removing them changes" text
Influential == has_outliers /\ outlier_warning = "influential"

\* the most pairs with a missing value the series are given
MaxMissing == 1

\* the lengths of the two series handed to the function
Lengths == {0, 2, 3, 6, 14, 15, 29, 30}

\* values stats.pearsonr / stats.spearmanr give as coefficient
Coefficients == {0 - 900, 0 - 380, 0 - 250, 0, 220, 300, 380, 600, 900}

\* values mutual_info_regression gives
MiScores == {0, 200, 300, 500}

\* values stats.pearsonr gives as p-value
PValues == {10, 50, 200}

NoClassification ==
    [type |-> None, strength |-> None, direction |-> None,
     significance |-> FALSE, confidence |-> None]

NoResult == [kind |-> "none", error |-> "", n |-> 0, classification |-> NoClassification]

\* no call of generate_smart_insight is under way
InsightIdle ==
    /\ len_data1 = 0 /\ len_data2 = 0
    /\ missing_pairs = 0
    /\ ipc = "idle"
    /\ insight_n = 0
    /\ pearson_r = 0 /\ pearson_p = 0 /\ spearman_rho = 0 /\ mi_score = 0
    /\ relationship_type = None /\ strength = None
    /\ has_outliers = FALSE /\ outlier_warning = None
    /\ n_outliers = 0 /\ r_clean = <<>>
    /\ direction = None /\ confidence = None
    /\ result = NoResult

\* lines 25-28: n = len(data1); fewer than 3 points is an error
InsightValidate ==
    /\ ipc = "start"
    /\ insight_n' = len_data1
    /\ IF len_data1 < 3
       THEN /\ result' = [NoResult EXCEPT !.kind = "error",
                                          !.error = "Insufficient data points (n < 3)"]
            /\ ipc' = "returned"
       ELSE /\ result' = result
            /\ ipc' = "metrics"
    /\ UNCHANGED <<len_data1, len_data2, missing_pairs, pearson_r, pearson_p, spearman_rho, mi_score,
                   relationship_type, strength, has_outliers, outlier_warning, n_outliers, r_clean,
                   direction, confidence>>
    /\ UNCHANGED notInsightVars

\* lines 30-46: the library computes the metrics; stats.pearsonr raises
\* ValueError for series of different lengths.  Nothing removes a pair
\* with a missing value: a None makes the arrays non-numeric and
\* stats.pearsonr raises TypeError, a NaN passes the three coefficients
\* and mutual_info_regression raises ValueError on it.
InsightMetrics ==
    /\ ipc = "metrics"
    /\ IF len_data1 # len_data2
       THEN /\ result' = [NoResult EXCEPT !.kind = "exception", !.error = "ValueError"]
            /\ ipc' = "raised"
            /\ UNCHANGED <<pearson_r, pearson_p, spearman_rho, mi_score>>
       ELSE IF missing_pairs > 0
       THEN /\ \E e \in {"TypeError", "ValueError"} :
                  result' = [NoResult EXCEPT !.kind = "exception", !.error = e]
            /\ ipc' = "raised"
            /\ UNCHANGED <<pearson_r, pearson_p, spearman_rho, mi_score>>
       ELSE /\ pearson_r' \in Coefficients
            /\ pearson_p' \in PValues
            /\ spearman_rho' \in Coefficients
            /\ mi_score' \in MiScores
            /\ result' = result
            /\ ipc' = "classify"
    /\ UNCHANGED <<len_data1, len_data2, missing_pairs, insight_n, relationship_type, strength, has_outliers,
                   outlier_warning, n_outliers, r_clean, direction, confidence>>
    /\ UNCHANGED notInsightVars

\* lines 53-83: relationship type and strength
InsightClassify ==
    /\ ipc = "classify"
    /\ relationship_type' = classify(pearson_r, spearman_rho, mi_score)
    /\ strength' = strength_of(relationship_type', pearson_r, spearman_rho)
    /\ ipc' = "outliers"
    /\ UNCHANGED <<len_data1, len_data2, missing_pairs, insight_n, pearson_r, pearson_p, spearman_rho, mi_score,
                   has_outliers, outlier_warning, n_outliers, r_clean, direction, confidence,
                   result>>
    /\ UNCHANGED notInsightVars

\* a variant that calls every flagged point influential
outlier_warning_always(nn, flagged, r, clean) ==
    IF flagged > 0
    THEN "influential"
    ELSE "No significant outliers detected."

\* lines 92-108: the warning; "influential" stands for the text with
\* "Removing them changes", "minimal" for the text with "minimal impact"
outlier_warning_of(nn, flagged, r, clean) ==
    IF flagged > 0 /\ nn - flagged > 2
    THEN (IF abs(clean[1] - r) > 50 THEN "influential" ELSE "minimal")
    ELSE "No significant outliers detected."

\* the most points the model lets the z-score test flag
MaxFlagged == 2

\* lines 85-108: points with |z| > 2.0 on either series; since the
\* squares of n z-scores sum to n, fewer than n/4 points of a series
\* can be flagged.  r_clean is the coefficient the library gives for the
\* remaining points.
InsightOutliers ==
    /\ ipc = "outliers"
    /\ \E flagged \in 0..MaxFlagged :
         /\ 2 * flagged < insight_n
         /\ (flagged > 0 => insight_n >= 6)
         /\ n_outliers' = flagged
         /\ has_outliers' = (flagged > 0)
         /\ IF flagged > 0 /\ insight_n - flagged > 2
            THEN r_clean' \in {<<c>> : c \in Coefficients}
            ELSE r_clean' = <<>>
         /\ outlier_warning' = outlier_warning_of(insight_n, flagged, pearson_r, r_clean')
    /\ ipc' = "direction"
    /\ UNCHANGED <<len_data1, len_data2, missing_pairs, insight_n, pearson_r, pearson_p,
                   spearman_rho, mi_score, relationship_type, strength, direction,
                   confidence, result>>
    /\ UNCHANGED notInsightVars

\* lines 112-116: the direction
InsightDirection ==
    /\ ipc = "direction"
    /\ direction' = direction_of(relationship_type, pearson_r, spearman_rho)
    /\ ipc' = "confidence"
    /\ UNCHANGED <<len_data1, len_data2, missing_pairs, insight_n, pearson_r, pearson_p, spearman_rho, mi_score,
                   relationship_type, strength, has_outliers, outlier_warning, n_outliers, r_clean,
                   confidence, result>>
    /\ UNCHANGED notInsightVars

\* lines 160-172: the confidence
InsightConfidence ==
    /\ ipc = "confidence"
    /\ confidence' = outlier_confidence(base_confidence(insight_n, pearson_p, strength), Influential)
    /\ ipc' = "return"
    /\ UNCHANGED <<len_data1, len_data2, missing_pairs, insight_n, pearson_r, pearson_p, spearman_rho, mi_score,
                   relationship_type, strength, has_outliers, outlier_warning, n_outliers, r_clean,
                   direction, result>>
    /\ UNCHANGED notInsightVars

\* lines 174-196: the result
InsightReturn ==
    /\ ipc = "return"
    /\ result' = [kind |-> "result", error |-> "", n |-> insight_n,
                  classification |->
                      [type |-> relationship_type,
                       strength |-> strength,
                       direction |-> direction,
                       significance |-> (pearson_p < 50),
                       confidence |-> confidence]]
    /\ ipc' = "returned"
    /\ UNCHANGED <<len_data1, len_data2, missing_pairs, insight_n, pearson_r, pearson_p, spearman_rho, mi_score,
                   relationship_type, strength, has_outliers, outlier_warning, n_outliers, r_clean,
                   direction, confidence>>
    /\ UNCHANGED notInsightVars

\* ---------------------------------------------------------------------
\* convert_tiles.py: the command-line tool.  An optional integer is <<>>
\* for None and <<z>> for the integer z; areas are in thousandths of a
\* square degree.
\* ---------------------------------------------------------------------

\* x or y, for an optional integer x: None and 0 are both falsy
py_or(x, y) == IF x = <<>> \/ x = <<0>> THEN y ELSE x

min(a, b) == IF a < b THEN a ELSE b

max(a, b) == IF a > b THEN a ELSE b

\* calculate_optimal_zoom, lines 100-117: the zoom range of an area
zoom_of_area(area_deg) ==
    IF area_deg < 1 THEN <<14, 19>>
    ELSE IF area_deg < 10 THEN <<12, 18>>
    ELSE IF area_deg < 100 THEN <<10, 16>>
    ELSE IF area_deg < 1000 THEN <<8, 14>>
    ELSE IF area_deg < 10000 THEN <<6, 12>>
    ELSE <<0, 6>>

\* calculate_optimal_zoom(bounds, file_size_kb); bounds is <<>> when
\* gdalinfo gave none, else <<area_deg>>
calculate_optimal_zoom(bnds, size_kb) ==
    IF bnds = <<>> THEN <<10, 14>>
    ELSE LET z == zoom_of_area(bnds[1])
             max_zoom == IF size_kb > 10000 THEN min(z[2] + 2, 20)
                         ELSE IF size_kb > 1000 THEN min(z[2] + 1, 19)
                         ELSE IF size_kb < 100 THEN max(z[2] - 1, z[1] + 2)
                         ELSE z[2]
         IN  <<z[1], max_zoom>>

\* the values of --zoom-min / --zoom-max: absent, or an integer
ZoomArgs == {<<>>, <<0>>, <<3>>, <<8>>, <<16>>}

\* what get_geotiff_bounds gives: None, or the area of the extent
BoundsOf == {<<>>, <<0>>, <<5>>, <<50>>, <<500>>, <<5000>>, <<50000>>}

\* file sizes in KB
FileSizes == {50, 500, 5000, 50000}

\* convert_tiles.py is not running
TilesIdle ==
    /\ tpc = "idle"
    /\ args_zoom_min = <<>> /\ args_zoom_max = <<>>
    /\ zoom_min = <<>> /\ zoom_max = <<>>
    /\ bounds = <<>>
    /\ file_size_kb = 0
    /\ gdal_zoom = <<>>
    /\ exit_code = <<>>

\* lines 358-365 and 215-229: main parses the arguments and calls
\* process_geotiff, which returns False without the input file, GDAL or
\* the R2 credentials
TilesStart ==
    /\ tpc = "start"
    /\ zoom_min' = args_zoom_min
    /\ zoom_max' = args_zoom_max
    /\ \E ready \in BOOLEAN :
         IF ready
         THEN tpc' = "zoom" /\ exit_code' = exit_code
         ELSE tpc' = "exited" /\ exit_code' = <<1>>
    /\ UNCHANGED <<args_zoom_min, args_zoom_max, bounds, file_size_kb, gdal_zoom>>
    /\ UNCHANGED notTilesVars

\* lines 231-251: file size, bounds, and the zoom range
TilesZoom ==
    /\ tpc = "zoom"
    /\ \E size_kb \in FileSizes, bnds \in BoundsOf :
         /\ file_size_kb' = size_kb
         /\ bounds' = bnds
         /\ IF zoom_min = <<>> \/ zoom_max = <<>>
            THEN LET auto == calculate_optimal_zoom(bnds, size_kb)
                 IN  /\ zoom_min' = py_or(zoom_min, <<auto[1]>>)
                     /\ zoom_max' = py_or(zoom_max, <<auto[2]>>)
            ELSE UNCHANGED <<zoom_min, zoom_max>>
    /\ tpc' = "convert"
    /\ UNCHANGED <<args_zoom_min, args_zoom_max, gdal_zoom, exit_code>>
    /\ UNCHANGED notTilesVars

\* lines 253-277: gdal2tiles.py --zoom=<zoom_min>-<zoom_max>
TilesConvert ==
    /\ tpc = "convert"
    /\ gdal_zoom' = <<zoom_min[1], zoom_max[1]>>
    /\ \E returncode \in {0, 1} :
         IF returncode # 0
         THEN tpc' = "exited" /\ exit_code' = <<1>>
         ELSE tpc' = "upload" /\ exit_code' = exit_code
    /\ UNCHANGED <<args_zoom_min, args_zoom_max, zoom_min, zoom_max, bounds, file_size_kb>>
    /\ UNCHANGED notTilesVars

\* lines 279-343: upload the tiles, save the metadata, clean up; the
\* function returns True whatever the uploads and the D1 query gave
TilesUpload ==
    /\ tpc = "upload"
    /\ tpc' = "exited"
    /\ exit_code' = <<0>>
    /\ UNCHANGED <<args_zoom_min, args_zoom_max, zoom_min, zoom_max, bounds, file_size_kb,
                   gdal_zoom>>
    /\ UNCHANGED notTilesVars

\* ---------------------------------------------------------------------
\* Two uploads of point files at the same time: admin_upload and the file
\* handling of process_csv, per request.  A file's content is the number
\* of the request whose data it holds.
\* ---------------------------------------------------------------------

Requests == {1, 2}

\* task_id = str(uuid.uuid4()): a fresh id per request
task_of(j) == IF j = 1 THEN "task-1" ELSE "task-2"

\* line 1100: uploads/<layer_name>_<filename>
filepath(j) == <<"uploads", jobs[j].layer_name, jobs[j].filename>>

\* line 847: temp_tiles/<layer_name>_data.geojson
geojson_path(j) == <<"temp_tiles", jobs[j].layer_name, "_data.geojson">>

\* lines 854 and 873: <layer_name>/data.geojson
remote_path(j) == <<jobs[j].layer_name, "data.geojson">>

\* the disk with content c written to path
write(d, path, c) == [q \in DOMAIN d \cup {path} |-> IF q = path THEN c ELSE d[q]]

\* the disk with path removed
remove(d, path) == [q \in DOMAIN d \ {path} |-> d[q]]

\* the bucket with body put under key, replacing an older object
put(bucket, key, body) == {o \in bucket : o.key # key} \cup {[key |-> key, body |-> body]}

\* a variant that rebuilds the dictionary around the entry written
set_entry_fresh(tasks, t, entry) == [q \in {t} |-> entry]

\* conversion_tasks[task_id] = {...}: item assignment on the shared dict
set_entry(tasks, t, entry) ==
    [q \in DOMAIN tasks \cup {t} |-> IF q = t THEN entry ELSE tasks[q]]

\* no request is being served
ConcIdle ==
    /\ disk = << >>
    /\ jobs = << >>

\* the names two requests may carry
LayerNames == {"banjir", "gdp"}

FileNames == {"data.csv", "2025.csv"}

\* lines 1083-1128: admin_upload saves the upload, registers the task and
\* starts the thread
Submit(j) ==
    /\ jobs[j].pc = "request"
    /\ disk' = write(disk, filepath(j), j)
    /\ conversion_tasks' =
         set_entry(conversion_tasks, task_of(j),
                   [status |-> "starting", progress |-> 0, error |-> NoError])
    /\ jobs' = [jobs EXCEPT ![j].pc = "read"]
    /\ UNCHANGED <<r2_bucket, map_layers>>

\* lines 721-849: read the CSV, build the features, dump the collection;
\* a missing CSV is a FileNotFoundError for the handler of line 902
ReadAndDump(j) ==
    /\ jobs[j].pc = "read"
    /\ IF filepath(j) \in DOMAIN disk
       THEN /\ jobs' = [jobs EXCEPT ![j].pc = "upload", ![j].geojson = disk[filepath(j)]]
            /\ disk' = write(disk, geojson_path(j), disk[filepath(j)])
            /\ conversion_tasks' = set_entry(conversion_tasks, task_of(j), Converting(60))
       ELSE /\ jobs' = [jobs EXCEPT ![j].pc = "returned"]
            /\ disk' = disk
            /\ conversion_tasks' = set_entry(conversion_tasks, task_of(j), Error(Message("str(e)")))
    /\ UNCHANGED <<r2_bucket, map_layers>>

\* lines 851-895: upload_file sends the temporary file, put_object the
\* collection in memory; R2 and D1 answer
UploadFile(j) ==
    /\ jobs[j].pc = "upload"
    /\ IF geojson_path(j) \in DOMAIN disk
       THEN /\ jobs' = [jobs EXCEPT ![j].pc = "cleanup", ![j].sent = disk[geojson_path(j)]]
            /\ r2_bucket' = put(r2_bucket, remote_path(j), jobs[j].geojson)
            /\ map_layers' = map_layers \cup {"geojson"}
            /\ conversion_tasks' = set_entry(conversion_tasks, task_of(j), Done)
       ELSE /\ jobs' = [jobs EXCEPT ![j].pc = "cleanup"]
            /\ UNCHANGED <<r2_bucket, map_layers>>
            /\ conversion_tasks' = set_entry(conversion_tasks, task_of(j), Error(Message("Upload error: {str(e)}")))
    /\ disk' = disk

\* lines 897-903: remove the temporary file if it exists, remove the
\* CSV; a missing CSV is a FileNotFoundError for the handler of line 902
Cleanup(j) ==
    /\ jobs[j].pc = "cleanup"
    /\ disk' = remove(remove(disk, geojson_path(j)), filepath(j))
    /\ conversion_tasks' =
         IF filepath(j) \in DOMAIN disk THEN conversion_tasks
         ELSE set_entry(conversion_tasks, task_of(j), Error(Message("str(e)")))
    /\ jobs' = [jobs EXCEPT ![j].pc = "returned"]
    /\ UNCHANGED <<r2_bucket, map_layers>>

\* what a request leaves alone
ConcUnchanged ==
    UNCHANGED <<inputVars, colVars, accVars, pointVars, outVars, files, pc, i,
                insightVars, tilesVars, uploadVars>>

SubmitAny == (\E j \in Requests : Submit(j)) /\ ConcUnchanged

ReadAndDumpAny == (\E j \in Requests : ReadAndDump(j)) /\ ConcUnchanged

UploadFileAny == (\E j \in Requests : UploadFile(j)) /\ ConcUnchanged

CleanupAny == (\E j \in Requests : Cleanup(j)) /\ ConcUnchanged

\* ---------------------------------------------------------------------
\* upload_tiles_to_r2 (app.py lines 232-260)
\* ---------------------------------------------------------------------
\* The tile objects put into R2 are counted by `uploaded`; r2_bucket lists
\* only the single-file outputs of the CSV jobs.

\* the numbers of .png files a tile directory may hold
TileCounts == {0, 1, 50, 100}

Uploading(progress) == [status |-> "uploading", progress |-> progress, error |-> NoError]

\* line 237: the .png files found by walking tiles_dir
total == png_files

\* line 256: int((uploaded / total) * 100)
percent(u, t) == (u * 100) \div t

\* no tile directory, no upload loop under way
UploadTilesIdle ==
    /\ png_files = 0
    /\ uploaded = 0
    /\ walked = 0
    /\ success = FALSE
    /\ msg = ""

\* what neither the tile jobs nor admin_upload touch
tileJobUnchanged ==
    UNCHANGED <<headers, rows, value_col_name, popup_col, colVars, accVars, pointVars,
                outVars, i, insightVars, tilesVars, concVars>>

\* lines 234-241: the two refusals, else the loop starts
UploadTilesBegin ==
    /\ pc = "upload_tiles"
    /\ IF ~r2_client
       THEN /\ success' = FALSE
            /\ msg' = "R2 tidak terhubung"
            /\ pc' = "uploaded_tiles"
            /\ UNCHANGED <<uploaded, walked>>
       ELSE IF total = 0
       THEN /\ success' = FALSE
            /\ msg' = "Tidak ada tiles PNG"
            /\ pc' = "uploaded_tiles"
            /\ UNCHANGED <<uploaded, walked>>
       ELSE /\ uploaded' = 0
            /\ walked' = 0
            /\ pc' = "tile"
            /\ UNCHANGED <<success, msg>>
    /\ UNCHANGED <<upload_type, r2_client, png_files, files, r2_bucket, map_layers,
                   conversion_tasks>>
    /\ tileJobUnchanged

\* lines 242-258: one .png file of the walk; upload_to_r2 (217-229) returns
\* False when the transfer raised
UploadTile ==
    /\ pc = "tile"
    /\ walked < total
    /\ \E ok \in BOOLEAN :
          /\ walked' = walked + 1
          /\ uploaded' = IF ok THEN uploaded + 1 ELSE uploaded
          /\ conversion_tasks' =
                IF ok /\ (uploaded + 1) % 50 = 0
                THEN [conversion_tasks EXCEPT ![task_id] = Uploading(percent(uploaded + 1, total))]
                ELSE conversion_tasks
    /\ UNCHANGED <<upload_type, r2_client, png_files, success, msg, pc, files, r2_bucket,
                   map_layers>>
    /\ tileJobUnchanged

\* line 260: the walk is over
UploadTilesReturn ==
    /\ pc = "tile"
    /\ walked = total
    /\ success' = TRUE
    /\ msg' = "tiles uploaded"
    /\ pc' = "uploaded_tiles"
    /\ UNCHANGED <<upload_type, r2_client, png_files, uploaded, walked, files, r2_bucket,
                   map_layers, conversion_tasks>>
    /\ tileJobUnchanged

\* ---------------------------------------------------------------------
\* process_xyz_zip (app.py lines 267-296)
\* ---------------------------------------------------------------------

\* lines 270-283: extraction; a file that is no ZIP archive raises
XyzExtract ==
    /\ pc = "xyz"
    /\ \E bad_zip \in BOOLEAN :
          IF bad_zip
          THEN /\ conversion_tasks' = [conversion_tasks EXCEPT ![task_id] = Error(Message("str(e)"))]
               /\ files' = files \cup {"extract_dir"}
               /\ png_files' = png_files
               /\ pc' = "returned"
          ELSE /\ conversion_tasks' = [conversion_tasks EXCEPT ![task_id] = Uploading(0)]
               /\ files' = files \cup {"extract_dir"}
               /\ png_files' \in TileCounts
               /\ pc' = "upload_tiles"
    /\ UNCHANGED <<upload_type, r2_client, uploaded, walked, success, msg, r2_bucket, map_layers>>
    /\ tileJobUnchanged

\* lines 285-291: the result of insert_layer is not looked at
XyzFinish ==
    /\ pc = "uploaded_tiles"
    /\ upload_type = "xyz"
    /\ IF success
       THEN \E layer_id \in {None, "id"} :
               /\ map_layers' = IF layer_id # None THEN map_layers \cup {"tiles"} ELSE map_layers
               /\ conversion_tasks' = [conversion_tasks EXCEPT ![task_id] = Done]
       ELSE /\ map_layers' = map_layers
            /\ conversion_tasks' = [conversion_tasks EXCEPT ![task_id] = Error(Message(msg))]
    /\ pc' = "cleanup"
    /\ UNCHANGED <<upload_type, r2_client, png_files, uploaded, walked, success, msg, files,
                   r2_bucket>>
    /\ tileJobUnchanged

\* lines 293-296: rmtree ignores errors; os.remove of the archive is
\* inside the try block, so its exception reaches line 296
XyzCleanup ==
    /\ pc = "cleanup"
    /\ upload_type = "xyz"
    /\ \E outcome \in RemoveOutcomes :
          /\ files' = IF outcome = "denied"
                       THEN files \ {"extract_dir"}
                       ELSE files \ {"extract_dir", "zip"}
          /\ conversion_tasks' =
                IF outcome = "removed"
                THEN conversion_tasks
                ELSE [conversion_tasks EXCEPT ![task_id] = Error(Message("str(e)"))]
    /\ png_files' = 0
    /\ pc' = "returned"
    /\ UNCHANGED <<upload_type, r2_client, uploaded, walked, success, msg, r2_bucket, map_layers>>
    /\ tileJobUnchanged

\* ---------------------------------------------------------------------
\* process_geotiff (app.py lines 906-1061)
\* ---------------------------------------------------------------------

\* lines 918-946: progress 0, the output directory
GeotiffPrepare ==
    /\ pc = "geotiff"
    /\ conversion_tasks' = [conversion_tasks EXCEPT ![task_id] = Converting(0)]
    /\ files' = files \cup {"output_dir"}
    /\ pc' = "translate"
    /\ UNCHANGED <<upload_type, r2_client, png_files, uploaded, walked, success, msg,
                   r2_bucket, map_layers>>
    /\ tileJobUnchanged

\* lines 950-965: progress 10, then gdal_translate is run
GeotiffTranslate ==
    /\ pc = "translate"
    /\ conversion_tasks' = [conversion_tasks EXCEPT ![task_id] = Converting(10)]
    /\ pc' = "translated"
    /\ UNCHANGED <<upload_type, r2_client, png_files, uploaded, walked, success, msg, files,
                   r2_bucket, map_layers>>
    /\ tileJobUnchanged

\* lines 967-993 and 1057-1061: gdal_translate (with its fallback) came back;
\* a failure returns with nothing removed
GeotiffTranslated ==
    /\ pc = "translated"
    /\ \E outcome \in {"ok", "nonzero", "raised"} :
          CASE outcome = "ok" ->
                  /\ files' = files \cup {"vrt"}
                  /\ conversion_tasks' = [conversion_tasks EXCEPT ![task_id] = Converting(30)]
                  /\ pc' = "gdal2tiles"
            [] outcome = "nonzero" ->
                  /\ files' = files
                  /\ conversion_tasks' = [conversion_tasks EXCEPT ![task_id] =
                                             Error(Message("8-bit conversion failed"))]
                  /\ pc' = "returned"
            [] outcome = "raised" ->
                  /\ files' = files
                  /\ conversion_tasks' = [conversion_tasks EXCEPT ![task_id] =
                                             Error(Message("str(e)"))]
                  /\ pc' = "returned"
    /\ UNCHANGED <<upload_type, r2_client, png_files, uploaded, walked, success, msg,
                   r2_bucket, map_layers>>
    /\ tileJobUnchanged

\* lines 995-1020: gdal2tiles.py came back; the VRT is removed either way
GeotiffTiles ==
    /\ pc = "gdal2tiles"
    /\ files' = files \ {"vrt"}
    /\ \E returncode \in {0, 1} :
          IF returncode # 0
          THEN /\ conversion_tasks' = [conversion_tasks EXCEPT ![task_id] = Error(Message("GDAL"))]
               /\ png_files' = png_files
               /\ pc' = "returned"
          ELSE /\ conversion_tasks' = [conversion_tasks EXCEPT ![task_id] = Converting(60)]
               /\ png_files' \in TileCounts
               /\ pc' = "upload_tiles"
    /\ UNCHANGED <<upload_type, r2_client, uploaded, walked, success, msg, r2_bucket, map_layers>>
    /\ tileJobUnchanged

\* lines 1026-1044: a failed upload returns with nothing removed
GeotiffFinish ==
    /\ pc = "uploaded_tiles"
    /\ upload_type = "geotiff"
    /\ IF ~success
       THEN /\ conversion_tasks' = [conversion_tasks EXCEPT ![task_id] = Error(Message(msg))]
            /\ map_layers' = map_layers
            /\ pc' = "returned"
       ELSE \E layer_id \in {None, "id"} :
               /\ map_layers' = IF layer_id # None THEN map_layers \cup {"tiles"} ELSE map_layers
               /\ conversion_tasks' =
                     [conversion_tasks EXCEPT ![task_id] =
                         IF Truthy(layer_id) THEN Done ELSE Error(Message("R2 OK tapi D1 gagal"))]
               /\ pc' = "cleanup"
    /\ UNCHANGED <<upload_type, r2_client, png_files, uploaded, walked, success, msg, files,
                   r2_bucket>>
    /\ tileJobUnchanged

\* lines 1046-1049: rmtree ignores errors and the input is removed only
\* if it exists
GeotiffCleanup ==
    /\ pc = "cleanup"
    /\ upload_type = "geotiff"
    /\ files' = files \ {"output_dir", "tif"}
    /\ png_files' = 0
    /\ pc' = "returned"
    /\ UNCHANGED <<upload_type, r2_client, uploaded, walked, success, msg, r2_bucket, map_layers,
                   conversion_tasks>>
    /\ tileJobUnchanged

\* ---------------------------------------------------------------------
\* admin_upload (app.py lines 1083-1128)
\* ---------------------------------------------------------------------

UploadTypes == {"xyz", "csv", "choropleth", "geotiff"}

\* line 1100: the saved upload, by the kind of file the job expects
saved_file(type) ==
    CASE type = "xyz" -> "zip"
      [] type = "geotiff" -> "tif"
      [] OTHER -> "csv"

Starting == [status |-> "starting", progress |-> 0, error |-> NoError]

\* the whole handler: the three refusals, the saved file, the registered
\* task, the job thread started for the upload type
AdminUpload ==
    /\ pc = "admin"
    /\ \E has_file \in BOOLEAN, has_layer_name \in BOOLEAN,
          gdal \in BOOLEAN, zoom_is_int \in BOOLEAN :
          IF ~r2_client \/ ~has_file \/ ~has_layer_name
          THEN /\ pc' = "returned"
               /\ UNCHANGED <<files, conversion_tasks>>
          ELSE /\ conversion_tasks' = [t \in {task_id} |-> Starting]
               /\ CASE upload_type = "xyz" ->
                          /\ files' = files \cup {saved_file(upload_type)}
                          /\ pc' = "xyz"
                    [] upload_type \in {"csv", "choropleth"} ->
                          /\ files' = files \cup {saved_file(upload_type)}
                          /\ pc' = "start"
                    [] OTHER ->
                          IF ~gdal
                          THEN /\ files' = files          \* saved, then removed (1119)
                               /\ pc' = "returned"
                          ELSE IF ~zoom_is_int
                          THEN /\ files' = files \cup {saved_file(upload_type)}
                               /\ pc' = "returned"        \* int() raised (1121-1122)
                          ELSE /\ files' = files \cup {saved_file(upload_type)}
                               /\ pc' = "geotiff"
    /\ UNCHANGED <<upload_type, r2_client, png_files, uploaded, walked, success, msg,
                   r2_bucket, map_layers>>
    /\ tileJobUnchanged

\* nothing but an upload job is running
OtherIdle == InsightIdle /\ TilesIdle /\ ConcIdle /\ UploadTilesIdle

\* ---------------------------------------------------------------------
\* admin_upload starts one job on one uploaded file
\* ---------------------------------------------------------------------

\* the value_col form field: absent, a header of some files, no header
ValueColNames == {"", "value", "gdp2"}

\* the lat_col / lon_col / popup_col form fields
PointColNames == {<<"", "", "">>, <<"lat", "lon", "label">>, <<"y", "lon", "">>}

Init ==
    /\ upload_type \in {"choropleth", "csv"}
    /\ headers \in (IF upload_type = "choropleth" THEN ChoroplethHeaders ELSE PointHeaders)
    /\ rows \in FilesOver(headers)
    /\ value_col_name \in (IF upload_type = "choropleth" THEN ValueColNames ELSE {""})
    /\ \E names \in (IF upload_type = "csv" THEN PointColNames ELSE {<<"", "", "">>}) :
          lat_col = names[1] /\ lon_col = names[2] /\ popup_col = names[3]
    /\ r2_client = TRUE    \* line 1085: without the client no job is started
    /\ pc = "start"
    /\ i = 0
    /\ country_col = None /\ year_col = None /\ value_col = None
    /\ use_indo_geojson = FALSE
    /\ use_country_geocoding = FALSE /\ use_indo_geocoding = FALSE
    /\ data = EmptyDict /\ years_set = {} /\ min_value = PosInf /\ max_value = NegInf
    /\ years = <<>>
    /\ geojson_filename = None
    /\ choropleth_data = NoOutput
    /\ features = <<>>
    /\ skipped_countries = {}
    /\ geojson = NoOutput
    /\ files = {"csv"}
    /\ r2_bucket = {}
    /\ map_layers = {}
    /\ conversion_tasks = [t \in {task_id} |-> [status |-> "starting", progress |-> 0, error |-> NoError]]
    /\ OtherIdle

Next ==
    \/ ChoroRead
    \/ ChoroDetect
    \/ ChoroRow
    \/ ChoroSort
    \/ ChoroGeometry
    \/ ChoroBuild
    \/ ChoroUpload
    \/ ChoroCleanup
    \/ CsvDetect
    \/ CsvRow
    \/ CsvBuild
    \/ CsvUpload
    \/ CsvCleanup

Spec == Init /\ [][Next]_vars

\* ---------------------------------------------------------------------
\* The choropleth job on files that vary only in their period labels
\* ---------------------------------------------------------------------

t_2019 == <<"2","0","1","9">>
t_2021 == <<"2","0","2","1">>
t_9    == <<"9">>
t_Q1   == <<"Q","1">>
t_H2   == <<"H","2">>

PeriodLabels == {t_2019, t_2020, t_2021, t_9, t_0, t_Q1, t_H2}

PeriodRows == {[h \in {"Code", "Year", "Value"} |->
                  IF h = "Code" THEN t_US ELSE IF h = "Year" THEN label ELSE t_7] :
               label \in PeriodLabels}

InitPeriods ==
    /\ upload_type = "choropleth"
    /\ headers = <<"Code", "Year", "Value">>
    /\ rows \in UNION {[1..n -> PeriodRows] : n \in 0..MaxLabels}
    /\ value_col_name = ""
    /\ lat_col = "" /\ lon_col = "" /\ popup_col = ""
    /\ r2_client = TRUE    \* line 1085: without the client no job is started
    /\ pc = "start"
    /\ i = 0
    /\ country_col = None /\ year_col = None /\ value_col = None
    /\ use_indo_geojson = FALSE
    /\ use_country_geocoding = FALSE /\ use_indo_geocoding = FALSE
    /\ data = EmptyDict /\ years_set = {} /\ min_value = PosInf /\ max_value = NegInf
    /\ years = <<>>
    /\ geojson_filename = None
    /\ choropleth_data = NoOutput
    /\ features = <<>>
    /\ skipped_countries = {}
    /\ geojson = NoOutput
    /\ files = {"csv"}
    /\ r2_bucket = {}
    /\ map_layers = {}
    /\ conversion_tasks = [t \in {task_id} |-> [status |-> "starting", progress |-> 0, error |-> NoError]]
    /\ OtherIdle

NextPeriods ==
    \/ ChoroRead
    \/ ChoroDetect
    \/ ChoroRow
    \/ ChoroSort
    \/ ChoroGeometry
    \/ ChoroBuild
    \/ ChoroUpload
    \/ ChoroCleanup

SpecPeriods == InitPeriods /\ [][NextPeriods]_vars

\* ---------------------------------------------------------------------
\* The point job on files of country codes
\* ---------------------------------------------------------------------

\* the keys of the "ISO2 codes" block of COUNTRY_CENTROIDS, in source order
ISO2_KEYS ==
    << <<"A","F">>, <<"A","L">>, <<"D","Z">>, <<"A","D">>, <<"A","O">>, <<"A","R">>,
       <<"A","M">>, <<"A","U">>, <<"A","T">>, <<"A","Z">>, <<"B","S">>, <<"B","H">>,
       <<"B","D">>, <<"B","Y">>, <<"B","E">>, <<"B","Z">>, <<"B","J">>, <<"B","T">>,
       <<"B","O">>, <<"B","A">>, <<"B","W">>, <<"B","R">>, <<"B","N">>, <<"B","G">>,
       <<"B","F">>, <<"B","I">>, <<"K","H">>, <<"C","M">>, <<"C","A">>, <<"C","V">>,
       <<"C","F">>, <<"T","D">>, <<"C","L">>, <<"C","N">>, <<"C","O">>, <<"K","M">>,
       <<"C","G">>, <<"C","D">>, <<"C","R">>, <<"C","I">>, <<"H","R">>, <<"C","U">>,
       <<"C","Y">>, <<"C","Z">>, <<"D","K">>, <<"D","J">>, <<"D","M">>, <<"D","O">>,
       <<"E","C">>, <<"E","G">>, <<"S","V">>, <<"G","Q">>, <<"E","R">>, <<"E","E">>,
       <<"E","T">>, <<"F","J">>, <<"F","I">>, <<"F","R">>, <<"G","A">>, <<"G","M">>,
       <<"G","E">>, <<"D","E">>, <<"G","H">>, <<"G","R">>, <<"G","T">>, <<"G","N">>,
       <<"G","W">>, <<"G","Y">>, <<"H","T">>, <<"H","N">>, <<"H","U">>, <<"I","S">>,
       <<"I","N">>, <<"I","D">>, <<"I","R">>, <<"I","Q">>, <<"I","E">>, <<"I","L">>,
       <<"I","T">>, <<"J","M">>, <<"J","P">>, <<"J","O">>, <<"K","Z">>, <<"K","E">>,
       <<"K","I">>, <<"K","P">>, <<"K","R">>, <<"K","W">>, <<"K","G">>, <<"L","A">>,
       <<"L","V">>, <<"L","B">>, <<"L","S">>, <<"L","R">>, <<"L","Y">>, <<"L","I">>,
       <<"L","T">>, <<"L","U">>, <<"M","K">>, <<"M","G">>, <<"M","W">>, <<"M","Y">>,
       <<"M","V">>, <<"M","L">>, <<"M","T">>, <<"M","R">>, <<"M","U">>, <<"M","X">>,
       <<"M","D">>, <<"M","C">>, <<"M","N">>, <<"M","E">>, <<"M","A">>, <<"M","Z">>,
       <<"M","M">>, <<"N","A">>, <<"N","P">>, <<"N","L">>, <<"N","Z">>, <<"N","I">>,
       <<"N","E">>, <<"N","G">>, <<"N","O">>, <<"O","M">>, <<"P","K">>, <<"P","A">>,
       <<"P","G">>, <<"P","Y">>, <<"P","E">>, <<"P","H">>, <<"P","L">>, <<"P","T">>,
       <<"Q","A">>, <<"R","O">>, <<"R","U">>, <<"R","W">>, <<"S","A">>, <<"S","N">>,
       <<"R","S">>, <<"S","L">>, <<"S","G">>, <<"S","K">>, <<"S","I">>, <<"S","B">>,
       <<"S","O">>, <<"Z","A">>, <<"S","S">>, <<"E","S">>, <<"L","K">>, <<"S","D">>,
       <<"S","R">>, <<"S","Z">>, <<"S","E">>, <<"C","H">>, <<"S","Y">>, <<"T","W">>,
       <<"T","J">>, <<"T","Z">>, <<"T","H">>, <<"T","L">>, <<"T","G">>, <<"T","N">>,
       <<"T","R">>, <<"T","M">>, <<"U","G">>, <<"U","A">>, <<"A","E">>, <<"G","B">>,
       <<"U","S">>, <<"U","Y">>, <<"U","Z">>, <<"V","U">>, <<"V","E">>, <<"V","N">>,
       <<"Y","E">>, <<"Z","M">>, <<"Z","W">> >>

\* the keys of the "ISO3 codes (mapped to same coordinates)" block, in
\* source order: the n-th key is the alpha-3 code of the country whose
\* alpha-2 code is the n-th key of the ISO2 block
ISO3_KEYS ==
    << <<"A","F","G">>, <<"A","L","B">>, <<"D","Z","A">>, <<"A","N","D">>, <<"A","G","O">>, <<"A","R","G">>,
       <<"A","R","M">>, <<"A","U","S">>, <<"A","U","T">>, <<"A","Z","E">>, <<"B","H","S">>, <<"B","H","R">>,
       <<"B","G","D">>, <<"B","L","R">>, <<"B","E","L">>, <<"B","L","Z">>, <<"B","E","N">>, <<"B","T","N">>,
       <<"B","O","L">>, <<"B","I","H">>, <<"B","W","A">>, <<"B","R","A">>, <<"B","R","N">>, <<"B","G","R">>,
       <<"B","F","A">>, <<"B","D","I">>, <<"K","H","M">>, <<"C","M","R">>, <<"C","A","N">>, <<"C","P","V">>,
       <<"C","A","F">>, <<"T","C","D">>, <<"C","H","L">>, <<"C","H","N">>, <<"C","O","L">>, <<"C","O","M">>,
       <<"C","O","G">>, <<"C","O","D">>, <<"C","R","I">>, <<"C","I","V">>, <<"H","R","V">>, <<"C","U","B">>,
       <<"C","Y","P">>, <<"C","Z","E">>, <<"D","N","K">>, <<"D","J","I">>, <<"D","M","A">>, <<"D","O","M">>,
       <<"E","C","U">>, <<"E","G","Y">>, <<"S","L","V">>, <<"G","N","Q">>, <<"E","R","I">>, <<"E","S","T">>,
       <<"E","T","H">>, <<"F","J","I">>, <<"F","I","N">>, <<"F","R","A">>, <<"G","A","B">>, <<"G","M","B">>,
       <<"G","E","O">>, <<"D","E","U">>, <<"G","H","A">>, <<"G","R","C">>, <<"G","T","M">>, <<"G","I","N">>,
       <<"G","N","B">>, <<"G","U","Y">>, <<"H","T","I">>, <<"H","N","D">>, <<"H","U","N">>, <<"I","S","L">>,
       <<"I","N","D">>, <<"I","D","N">>, <<"I","R","N">>, <<"I","R","Q">>, <<"I","R","L">>, <<"I","S","R">>,
       <<"I","T","A">>, <<"J","A","M">>, <<"J","P","N">>, <<"J","O","R">>, <<"K","A","Z">>, <<"K","E","N">>,
       <<"K","I","R">>, <<"P","R","K">>, <<"K","O","R">>, <<"K","W","T">>, <<"K","G","Z">>, <<"L","A","O">>,
       <<"L","V","A">>, <<"L","B","N">>, <<"L","S","O">>, <<"L","B","R">>, <<"L","B","Y">>, <<"L","I","E">>,
       <<"L","T","U">>, <<"L","U","X">>, <<"M","K","D">>, <<"M","D","G">>, <<"M","W","I">>, <<"M","Y","S">>,
       <<"M","D","V">>, <<"M","L","I">>, <<"M","L","T">>, <<"M","R","T">>, <<"M","U","S">>, <<"M","E","X">>,
       <<"M","D","A">>, <<"M","C","O">>, <<"M","N","G">>, <<"M","N","E">>, <<"M","A","R">>, <<"M","O","Z">>,
       <<"M","M","R">>, <<"N","A","M">>, <<"N","P","L">>, <<"N","L","D">>, <<"N","Z","L">>, <<"N","I","C">>,
       <<"N","E","R">>, <<"N","G","A">>, <<"N","O","R">>, <<"O","M","N">>, <<"P","A","K">>, <<"P","A","N">>,
       <<"P","N","G">>, <<"P","R","Y">>, <<"P","E","R">>, <<"P","H","L">>, <<"P","O","L">>, <<"P","R","T">>,
       <<"Q","A","T">>, <<"R","O","U">>, <<"R","U","S">>, <<"R","W","A">>, <<"S","A","U">>, <<"S","E","N">>,
       <<"S","R","B">>, <<"S","L","E">>, <<"S","G","P">>, <<"S","V","K">>, <<"S","V","N">>, <<"S","L","B">>,
       <<"S","O","M">>, <<"Z","A","F">>, <<"S","S","D">>, <<"E","S","P">>, <<"L","K","A">>, <<"S","D","N">>,
       <<"S","U","R">>, <<"S","W","Z">>, <<"S","W","E">>, <<"C","H","E">>, <<"S","Y","R">>, <<"T","W","N">>,
       <<"T","J","K">>, <<"T","Z","A">>, <<"T","H","A">>, <<"T","L","S">>, <<"T","G","O">>, <<"T","U","N">>,
       <<"T","U","R">>, <<"T","K","M">>, <<"U","G","A">>, <<"U","K","R">>, <<"A","R","E">>, <<"G","B","R">>,
       <<"U","S","A">>, <<"U","R","Y">>, <<"U","Z","B">>, <<"V","U","T">>, <<"V","E","N">>, <<"V","N","M">>,
       <<"Y","E","M">>, <<"Z","M","B">>, <<"Z","W","E">> >>

\* a code as a file may write it: as in the table, or in lower case
\* between blanks
CodeSpellings(code) == {code, <<" ">> \o lower(code) \o <<" ", " ">>}

InitCountries ==
    /\ upload_type = "csv"
    /\ headers = <<"Country", "pop">>
    /\ \E n \in 1..Len(ISO2_KEYS) :
         \E c2 \in CodeSpellings(ISO2_KEYS[n]), c3 \in CodeSpellings(ISO3_KEYS[n]) :
            rows = <<[h \in {"Country", "pop"} |-> IF h = "Country" THEN c2 ELSE t_7],
                     [h \in {"Country", "pop"} |-> IF h = "Country" THEN c3 ELSE t_7]>>
    /\ value_col_name = ""
    /\ lat_col = "" /\ lon_col = "" /\ popup_col = ""
    /\ r2_client = TRUE    \* line 1085: without the client no job is started
    /\ pc = "start"
    /\ i = 0
    /\ country_col = None /\ year_col = None /\ value_col = None
    /\ use_indo_geojson = FALSE
    /\ use_country_geocoding = FALSE /\ use_indo_geocoding = FALSE
    /\ data = EmptyDict /\ years_set = {} /\ min_value = PosInf /\ max_value = NegInf
    /\ years = <<>>
    /\ geojson_filename = None
    /\ choropleth_data = NoOutput
    /\ features = <<>>
    /\ skipped_countries = {}
    /\ geojson = NoOutput
    /\ files = {"csv"}
    /\ r2_bucket = {}
    /\ map_layers = {}
    /\ conversion_tasks = [t \in {task_id} |-> [status |-> "starting", progress |-> 0, error |-> NoError]]
    /\ OtherIdle

NextCountries ==
    \/ CsvDetect
    \/ CsvRow
    \/ CsvBuild
    \/ CsvUpload
    \/ CsvCleanup

SpecCountries == InitCountries /\ [][NextCountries]_vars

\* ---------------------------------------------------------------------
\* One call of generate_smart_insight, no upload under way
\* ---------------------------------------------------------------------

\* no upload was made: no job, no task entry, no file
JobIdle ==
    /\ upload_type = ""
    /\ headers = <<>>
    /\ rows = <<>>
    /\ value_col_name = ""
    /\ lat_col = "" /\ lon_col = "" /\ popup_col = ""
    /\ r2_client = TRUE
    /\ pc = "idle"
    /\ i = 0
    /\ country_col = None /\ year_col = None /\ value_col = None
    /\ use_indo_geojson = FALSE
    /\ use_country_geocoding = FALSE /\ use_indo_geocoding = FALSE
    /\ data = EmptyDict /\ years_set = {} /\ min_value = PosInf /\ max_value = NegInf
    /\ years = <<>>
    /\ geojson_filename = None
    /\ choropleth_data = NoOutput
    /\ features = <<>>
    /\ skipped_countries = {}
    /\ geojson = NoOutput
    /\ files = {}
    /\ r2_bucket = {}
    /\ map_layers = {}
    /\ conversion_tasks = << >>
    /\ UploadTilesIdle

InitInsight ==
    /\ JobIdle
    /\ TilesIdle
    /\ ConcIdle
    /\ len_data1 \in Lengths
    /\ len_data2 \in Lengths
    /\ missing_pairs \in {m \in 0..MaxMissing : m <= len_data1 /\ m <= len_data2}
    /\ ipc = "start"
    /\ insight_n = 0
    /\ pearson_r = 0 /\ pearson_p = 0 /\ spearman_rho = 0 /\ mi_score = 0
    /\ relationship_type = None /\ strength = None
    /\ has_outliers = FALSE /\ outlier_warning = None
    /\ n_outliers = 0 /\ r_clean = <<>>
    /\ direction = None /\ confidence = None
    /\ result = NoResult

NextInsight ==
    \/ InsightValidate
    \/ InsightMetrics
    \/ InsightClassify
    \/ InsightOutliers
    \/ InsightDirection
    \/ InsightConfidence
    \/ InsightReturn

SpecInsight == InitInsight /\ [][NextInsight]_vars

\* ---------------------------------------------------------------------
\* One run of convert_tiles.py, no upload under way
\* ---------------------------------------------------------------------

InitTiles ==
    /\ JobIdle
    /\ InsightIdle
    /\ ConcIdle
    /\ tpc = "start"
    /\ args_zoom_min \in ZoomArgs
    /\ args_zoom_max \in ZoomArgs
    /\ zoom_min = <<>> /\ zoom_max = <<>>
    /\ bounds = <<>>
    /\ file_size_kb = 0
    /\ gdal_zoom = <<>>
    /\ exit_code = <<>>

NextTiles ==
    \/ TilesStart
    \/ TilesZoom
    \/ TilesConvert
    \/ TilesUpload

SpecTiles == InitTiles /\ [][NextTiles]_vars

\* ---------------------------------------------------------------------
\* Two requests at the same time
\* ---------------------------------------------------------------------

InitConcurrent ==
    /\ JobIdle
    /\ InsightIdle
    /\ TilesIdle
    /\ disk = << >>
    /\ \E names \in [Requests -> LayerNames \X FileNames] :
         jobs = [j \in Requests |->
                   [pc |-> "request", layer_name |-> names[j][1], filename |-> names[j][2],
                    geojson |-> 0, sent |-> 0]]

NextConcurrent ==
    \/ SubmitAny
    \/ ReadAndDumpAny
    \/ UploadFileAny
    \/ CleanupAny

SpecConcurrent == InitConcurrent /\ [][NextConcurrent]_vars

\* ---------------------------------------------------------------------
\* One POST to /admin/upload, from the request to the end of its job
\* ---------------------------------------------------------------------

InitUpload ==
    /\ upload_type \in UploadTypes
    /\ headers \in (CASE upload_type = "choropleth" -> ChoroplethHeaders
                      [] upload_type = "csv" -> PointHeaders
                      [] OTHER -> {<<>>})
    /\ rows \in (IF upload_type \in {"choropleth", "csv"} THEN FilesOver(headers) ELSE {<<>>})
    /\ value_col_name \in (IF upload_type = "choropleth" THEN ValueColNames ELSE {""})
    /\ \E names \in (IF upload_type = "csv" THEN PointColNames ELSE {<<"", "", "">>}) :
          lat_col = names[1] /\ lon_col = names[2] /\ popup_col = names[3]
    /\ r2_client \in BOOLEAN
    /\ pc = "admin"
    /\ i = 0
    /\ country_col = None /\ year_col = None /\ value_col = None
    /\ use_indo_geojson = FALSE
    /\ use_country_geocoding = FALSE /\ use_indo_geocoding = FALSE
    /\ data = EmptyDict /\ years_set = {} /\ min_value = PosInf /\ max_value = NegInf
    /\ years = <<>>
    /\ geojson_filename = None
    /\ choropleth_data = NoOutput
    /\ features = <<>>
    /\ skipped_countries = {}
    /\ geojson = NoOutput
    /\ files = {}
    /\ r2_bucket = {}
    /\ map_layers = {}
    /\ conversion_tasks = << >>
    /\ OtherIdle

NextUpload ==
    \/ AdminUpload
    \/ XyzExtract
    \/ XyzFinish
    \/ XyzCleanup
    \/ GeotiffPrepare
    \/ GeotiffTranslate
    \/ GeotiffTranslated
    \/ GeotiffTiles
    \/ GeotiffFinish
    \/ GeotiffCleanup
    \/ UploadTilesBegin
    \/ UploadTile
    \/ UploadTilesReturn
    \/ ChoroRead
    \/ ChoroDetect
    \/ ChoroRow
    \/ ChoroSort
    \/ ChoroGeometry
    \/ ChoroBuild
    \/ ChoroUpload
    \/ ChoroCleanup
    \/ CsvDetect
    \/ CsvRow
    \/ CsvBuild
    \/ CsvUpload
    \/ CsvCleanup

\* The handler runs to its return, thread.start() (line 1126) schedules the
\* job, and every call the job waits on (subprocess, R2, D1) comes back:
\* whatever step is enabled is eventually taken.
SpecUpload == InitUpload /\ [][NextUpload]_vars /\ WF_vars(NextUpload)

\* ---------------------------------------------------------------------
\* Properties
\* ---------------------------------------------------------------------

status == conversion_tasks[task_id].status

error == conversion_tasks[task_id].error

\* the job has left its function body
Returned == pc = "returned"

\* C1: a job none of whose rows yields an entry (a file without rows
\* included) ends in status 'error', and no empty choropleth structure or
\* feature collection is ever built, uploaded or cataloged.
C1_EmptyResultIsError ==
    /\ (Returned /\ DOMAIN data = {} /\ features = <<>>) => status = "error"
    /\ choropleth_data # NoOutput => DOMAIN choropleth_data.data # {}
    /\ geojson # NoOutput => geojson.features # <<>>
    /\ \A o \in r2_bucket :
         /\ o.key = "choropleth.json" => DOMAIN o.body.data # {}
         /\ o.key = "data.geojson" => o.body.features # <<>>
    /\ (DOMAIN data = {} /\ features = <<>>) =>
         (r2_bucket = {} /\ map_layers = {} /\ "json" \notin files /\ status # "done")

\* every row was read and none of them yielded an entry
C1_Witness ==
    /\ Returned
    /\ Len(rows) > 0
    /\ i = Len(rows)
    /\ DOMAIN data = {} /\ features = <<>>
    /\ status = "error"

\* the choropleth job has run its column detection
ChoroDetected == upload_type = "choropleth" /\ pc \notin {"start", "detect"} /\ rows # <<>>

\* the point job has run its column detection and took the geocoding path
CsvGeocoding ==
    /\ upload_type = "csv"
    /\ pc # "start"
    /\ (~Truthy(lat_col) \/ ~Truthy(lon_col))

\* C5: when a header of the province candidate list is present, the
\* region column is the first such header and province mode is selected,
\* whether or not a country/ISO header is present too; the headers
\* provinsi, tahun, value give region provinsi, time tahun, value value.
C5_ProvincePriority ==
    /\ (ChoroDetected /\ first_in(headers, choropleth_indo_candidates) # None) =>
         /\ country_col = first_in(headers, choropleth_indo_candidates)
         /\ use_indo_geojson
    /\ (CsvGeocoding /\ first_in(headers, csv_indo_candidates) # None) =>
         /\ country_col = first_in(headers, csv_indo_candidates)
         /\ use_indo_geocoding
         /\ ~use_country_geocoding
    /\ (ChoroDetected /\ headers = <<"provinsi", "tahun", "value">>
          /\ ~explicit_missing(headers, value_col_name)) =>
         /\ country_col = "provinsi"
         /\ year_col = "tahun"
         /\ value_col = "value"

\* a file with a country header before a province header reached the row loop
C5_Witness ==
    /\ ChoroDetected
    /\ headers = <<"ISO3", "provinsi", "value">>
    /\ pc = "rows"
    /\ country_col = "provinsi"
    /\ use_indo_geojson

\* the point job reads coordinates from the lat/lon columns
CsvCoordinates ==
    /\ upload_type = "csv"
    /\ pc # "start"
    /\ ~use_country_geocoding /\ ~use_indo_geocoding
    /\ Truthy(lat_col) /\ Truthy(lon_col)

\* both coordinates of the row parse to exactly 0.0
BothZero(row) ==
    /\ FloatEq(csv_coord(row, lat_col), Zero)
    /\ FloatEq(csv_coord(row, lon_col), Zero)

\* C10: with latitude/longitude columns, a row whose latitude and
\* longitude both parse to 0.0 adds no feature, and no feature has the
\* coordinates [0, 0].
C10_SentinelZeroExcluded ==
    CsvCoordinates =>
        /\ \A n \in 1..Len(features) :
             ~(FloatEq(features[n].coordinates[1], Zero) /\ FloatEq(features[n].coordinates[2], Zero))
        /\ Len(features) <= Cardinality({n \in 1..i : ~BothZero(rows[n])})

\* a (0, 0) row was read and left out while another row became a feature
C10_Witness ==
    /\ CsvCoordinates
    /\ \E n \in 1..i : BothZero(rows[n]) /\ lat_col \in DOMAIN rows[n]
    /\ Len(features) > 0
    /\ Returned

\* C3: an explicit value column that is not a header ends the job in an
\* error that carries the column name and the header list, and nothing is
\* built.
C3_ExplicitColumnError ==
    (ChoroDetected /\ explicit_missing(headers, value_col_name)) =>
        /\ Returned
        /\ status = "error"
        /\ error.column = value_col_name
        /\ error.names_headers /\ error.headers = headers
        /\ choropleth_data = NoOutput /\ DOMAIN data = {}

\* no region column can be resolved from the headers and the first row
RegionUnresolved ==
    \/ ChoroDetected /\ ~Truthy(choropleth_region(headers, rows[1]).country_col)
    \/ CsvGeocoding /\ ~Truthy(csv_region(headers).country_col)

\* no value column can be resolved by the value-column inference
ValueUnresolved ==
    /\ ChoroDetected
    /\ ~explicit_missing(headers, value_col_name)
    /\ ~Truthy(choropleth_value_col(headers, rows[1], value_col_name,
                                    first_in(headers, year_candidates),
                                    choropleth_region(headers, rows[1]).country_col))

\* C4: when no region column or no value column can be resolved, the job
\* ends in an error that names all headers, and no data row is processed.
C4_InferenceError ==
    (RegionUnresolved \/ ValueUnresolved) =>
        /\ Returned
        /\ status = "error"
        /\ error.names_headers /\ error.headers = headers
        /\ i = 0 /\ DOMAIN data = {} /\ features = <<>>

\* the value cell of the row is empty once commas and whitespace are
\* stripped, or does not parse as a number
ValueCellUnusable(row) ==
    LET val_raw == strip(replace(row[value_col], <<",">>, <<>>))
    IN  val_raw = <<>> \/ float(val_raw).k = "ValueError"

\* C6: a row whose value cell is empty or unparsable adds nothing to
\* data and years and leaves min_value and max_value as they were.
C6_UnusableValueDropped ==
    [][(upload_type = "choropleth" /\ pc = "rows" /\ i' = i + 1
          /\ ValueCellUnusable(rows[i + 1]))
        => (data' = data /\ years_set' = years_set
              /\ min_value' = min_value /\ max_value' = max_value)]_vars

\* C7: in a choropleth structure, min_value <= v <= max_value for every
\* value v of data.
C7_MinMaxBound ==
    choropleth_data # NoOutput =>
        \A v \in dict_values(choropleth_data.data) :
            /\ FloatLe(choropleth_data.min_value, v)
            /\ FloatLe(v, choropleth_data.max_value)

\* the (region, period) key under which the loop stores a row
RowKey(row) ==
    <<choropleth_row_region(row, country_col, use_indo_geojson),
      choropleth_row_year(row, year_col)>>

\* the accepted rows of the file all have the same region and period
OneCell ==
    \A m, n \in 1..Len(rows) :
        (/\ choropleth_row_accepted(rows[m], country_col, value_col, use_indo_geojson)
         /\ choropleth_row_accepted(rows[n], country_col, value_col, use_indo_geojson))
        => RowKey(rows[m]) = RowKey(rows[n])

\* the accepted rows of the file all carry a finite number
FiniteValues ==
    \A n \in 1..Len(rows) :
        choropleth_row_accepted(rows[n], country_col, value_col, use_indo_geojson)
        => choropleth_row_value(rows[n], value_col).k = "fin"

\* C8: when all accepted rows have one region and one period (and carry
\* numbers), data is {region: {period: value}} and min_value = max_value =
\* the stored value.
C8_SingleCellRoundTrip ==
    (choropleth_data # NoOutput /\ OneCell /\ FiniteValues) =>
        \E n \in 1..Len(rows) :
            LET key == RowKey(rows[n])
            IN  /\ choropleth_row_accepted(rows[n], country_col, value_col, use_indo_geojson)
                /\ DOMAIN choropleth_data.data = {key[1]}
                /\ DOMAIN choropleth_data.data[key[1]] = {key[2]}
                /\ choropleth_data.min_value = choropleth_data.data[key[1]][key[2]]
                /\ choropleth_data.max_value = choropleth_data.data[key[1]][key[2]]

\* the row is accepted when the columns are detected with it as first row
ChoroRowValid(row) ==
    LET reg  == choropleth_region(headers, row)
        vcol == choropleth_value_col(headers, row, value_col_name,
                                     first_in(headers, year_candidates), reg.country_col)
    IN  /\ Truthy(reg.country_col)
        /\ Truthy(vcol)
        /\ choropleth_row_region(row, reg.country_col, reg.use_indo_geojson) # <<>>
        /\ strip(replace(row[vcol], <<",">>, <<>>)) # <<>>
        /\ float(strip(replace(row[vcol], <<",">>, <<>>))).k # "ValueError"

\* the row has a row-level problem: no region token, or a value cell
\* that is not empty and does not parse
ChoroRowBad(row) ==
    \/ choropleth_row_region(row, country_col, use_indo_geojson) = <<>>
    \/ LET val_raw == strip(replace(row[value_col], <<",">>, <<>>))
       IN  val_raw # <<>> /\ float(val_raw).k = "ValueError"

\* the row has coordinates: parsable and not (0, 0), or a known region
CsvRowValid(row) ==
    csv_row_locate(row, lat_col, lon_col, country_col,
                   use_indo_geocoding, use_country_geocoding).kind = "point"

\* the error texts of a job that found no usable column or row
RowFailureTexts ==
    {err_no_region(headers).text, err_no_value(headers).text, err_no_columns(headers).text,
     "CSV kosong", "Tidak ada data valid", "Tidak ada data valid ditemukan"}

\* the file has a valid row (for a choropleth file whose region column
\* is named by a candidate header)
HasValidRow ==
    \/ /\ upload_type = "choropleth"
       /\ ~explicit_missing(headers, value_col_name)
       /\ Truthy(first_in(headers, choropleth_indo_candidates \cup choropleth_country_candidates))
       /\ \E n \in 1..Len(rows) : ChoroRowValid(rows[n])
    \/ /\ upload_type = "csv"
       /\ pc # "start"
       /\ (use_indo_geocoding \/ use_country_geocoding \/ (Truthy(lat_col) /\ Truthy(lon_col)))
       /\ \E n \in 1..Len(rows) : CsvRowValid(rows[n])

\* C2: a file with at least one valid row is never failed by its bad
\* rows, wherever they stand; a bad row adds nothing to the output and a
\* valid row adds its entry.
C2_RowProblemsNeverAbort ==
    /\ [](Returned /\ HasValidRow => error.text \notin RowFailureTexts)
    /\ [][(upload_type = "choropleth" /\ pc = "rows" /\ i' = i + 1)
            => IF ChoroRowBad(rows[i + 1])
               THEN data' = data /\ years_set' = years_set
               ELSE RowKey(rows[i + 1])[1] \in DOMAIN data'
                    /\ RowKey(rows[i + 1])[2] \in DOMAIN data'[RowKey(rows[i + 1])[1]]]_vars
    /\ [][(upload_type = "csv" /\ pc = "rows" /\ i' = i + 1)
            => IF CsvRowValid(rows[i + 1])
               THEN Len(features') = Len(features) + 1
               ELSE features' = features]_vars

\* the period labels have been sorted
YearsSorted == upload_type = "choropleth" /\ years # <<>>

\* years holds each accepted label once, numeric labels ascending
YearsOnceAscending ==
    /\ Len(years) = Cardinality(years_set)
    /\ Range(years) = years_set
    /\ \A a, b \in 1..Len(years) :
         (a < b /\ isdigit(years[a]) /\ isdigit(years[b])) => int(years[a]) <= int(years[b])

\* C9 as stated: years holds each accepted label once, numeric labels in
\* ascending integer order, every non-numeric label before every numeric
\* label, the label "0" included.
C9_PeriodOrder ==
    YearsSorted =>
        /\ YearsOnceAscending
        /\ \A a, b \in 1..Len(years) :
             (~isdigit(years[a]) /\ isdigit(years[b])) => a < b

\* C9 amended: years holds each accepted label once, numeric labels in
\* ascending integer order, every non-numeric label before every numeric
\* label of positive value; a numeric label of value 0 has the sort key of
\* the non-numeric labels and stands anywhere among them.
C9_PeriodOrderPositive ==
    YearsSorted =>
        /\ YearsOnceAscending
        /\ \A a, b \in 1..Len(years) :
             (~isdigit(years[a]) /\ isdigit(years[b]) /\ int(years[b]) > 0) => a < b

\* three labels were sorted with "0" standing before a non-numeric label
C9_Witness ==
    /\ YearsSorted
    /\ Len(years) = 3
    /\ \E a, b \in 1..Len(years) : a < b /\ years[a] = t_0 /\ ~isdigit(years[b])
    /\ \E b \in 1..Len(years) : isdigit(years[b]) /\ int(years[b]) > 0

\* the alphabetic keys of COUNTRY_CENTROIDS of the given length
AlphaKeys(len) == {e[1] : e \in {e \in COUNTRY_CENTROIDS : Len(e[1]) = len /\ ~isdigit(e[1])}}

\* C11: the alpha-2 and the alpha-3 code of every country of the centroid
\* table resolve, after strip and uppercase, to the same coordinates, and
\* no alpha-2 key is without its alpha-3 key.
C11_Iso2Iso3SameCentroid ==
    /\ pc = "start" =>
         /\ AlphaKeys(2) = Range(ISO2_KEYS)
         /\ AlphaKeys(3) = Range(ISO3_KEYS)
         /\ Len(ISO2_KEYS) = Len(ISO3_KEYS)
    /\ (upload_type = "csv" /\ use_country_geocoding /\ i = Len(rows)) =>
         /\ Len(features) = Len(rows)
         /\ \A n \in 1..Len(features) : features[n].coordinates = features[1].coordinates

\* a country written in lower case between blanks was resolved by both codes
C11_Witness ==
    /\ upload_type = "csv" /\ use_country_geocoding
    /\ Returned /\ status = "done"
    /\ Len(features) = 2
    /\ rows[1]["Country"] # upper(strip(rows[1]["Country"]))
    /\ Len(upper(strip(rows[1]["Country"]))) = 2
    /\ Len(upper(strip(rows[2]["Country"]))) = 3

\* the province token of a row, uppercased, stripped, without PROVINSI
ProvinceToken(row) == strip(replace(upper(strip(row[country_col])), w_PROVINSI, <<>>))

\* C12: in province mode DIY and DI YOGYAKARTA name one province, DKI and
\* DKI JAKARTA name one province, in the choropleth job and in the point
\* job; the point job gives a row of such a token that province's
\* centroid and does not skip it.
C12_ProvinceAliases ==
    /\ (ChoroDetected /\ use_indo_geojson) =>
         \A n \in 1..Len(rows) :
            /\ ProvinceToken(rows[n]) \in {w_DIY, w_DI_YOGYAKARTA} =>
                 choropleth_row_region(rows[n], country_col, TRUE) = w_DAERAH_ISTIMEWA_YOGYAKARTA
            /\ ProvinceToken(rows[n]) \in {w_DKI, w_DKI_JAKARTA} =>
                 choropleth_row_region(rows[n], country_col, TRUE) = w_DKI_JAKARTA
    /\ (CsvGeocoding /\ use_indo_geocoding) =>
         \A n \in 1..i :
            LET loc == csv_row_locate(rows[n], lat_col, lon_col, country_col, TRUE, FALSE)
            IN  /\ ProvinceToken(rows[n]) \in {w_DIY, w_DI_YOGYAKARTA} =>
                     /\ loc.kind = "point"
                     /\ <<loc.lat, loc.lon>> = centroid(INDONESIA_PROVINCES, w_DI_YOGYAKARTA)
                     /\ upper(strip(rows[n][country_col])) \notin skipped_countries
                /\ ProvinceToken(rows[n]) \in {w_DKI, w_DKI_JAKARTA} =>
                     /\ loc.kind = "point"
                     /\ <<loc.lat, loc.lon>> = centroid(INDONESIA_PROVINCES, w_DKI_JAKARTA)
                     /\ upper(strip(rows[n][country_col])) \notin skipped_countries

\* the province job went past the geometry step without finding the
\* static boundary file on disk
BoundaryFileAbsent ==
    /\ upload_type = "choropleth"
    /\ use_indo_geojson
    /\ years # <<>>
    /\ pc \in {"upload", "cleanup", "returned"}
    /\ geojson_filename = None

\* C13: a province-mode job with an accepted row builds a dataset whose
\* geojson_file names the shared boundary file, whether or not the static
\* file is on the local disk; a country-mode job builds geojson_file = null.
C13_BoundaryReference ==
    /\ BoundaryFileAbsent => choropleth_data # NoOutput
    /\ (choropleth_data # NoOutput /\ use_indo_geojson) =>
         choropleth_data.geojson_file = "indonesia-provinces.geojson"
    /\ (choropleth_data # NoOutput /\ ~use_indo_geojson) =>
         choropleth_data.geojson_file = None

\* the call has returned a full result
InsightFull == ipc = "returned" /\ result.kind = "result"

\* the number of paired observations of the two series
Paired == IF len_data1 < len_data2 THEN len_data1 ELSE len_data2

\* C14: with fewer than 3 paired observations the call returns the
\* insufficient-data error and computes no metric, whatever the two
\* lengths; otherwise it returns a full result.
C14_InsufficientData ==
    /\ (ipc \notin {"start", "idle"} /\ Paired < 3 /\ missing_pairs = 0) =>
         /\ ipc = "returned"
         /\ result.kind = "error"
         /\ result.error = "Insufficient data points (n < 3)"
    /\ (ipc \in {"returned", "raised"} /\ Paired >= 3 /\ missing_pairs = 0) => InsightFull

\* C15: a result of type none carries no strength and no direction.
C15_NoneHasNoStrength ==
    (InsightFull /\ result.classification.type = T_none) =>
        /\ result.classification.strength = None
        /\ result.classification.direction = None

\* C16: with an influential outlier the confidence is one level below
\* the confidence of n, p-value and strength: Medium for High, Low for
\* Medium.
C16_InfluentialLowersOneLevel ==
    (InsightFull /\ Influential) =>
        LET base == base_confidence(insight_n, pearson_p, strength)
        IN  /\ base = "High" => result.classification.confidence = "Medium"
            /\ base = "Medium" => result.classification.confidence = "Low"

\* the first test of the tree: everything below its threshold
AllBelow == abs(pearson_r) < 300 /\ abs(spearman_rho) < 300 /\ mi_score < 200

\* the second test of the tree
RankAbove == abs(spearman_rho) > abs(pearson_r) + 80

\* the third test of the tree
ComplexDependency == mi_score > 400 /\ abs(pearson_r) < 300

\* C20: the type is none when all three metrics are below their
\* thresholds, else non-linear monotonic when |Spearman| > |Pearson| + 0.08,
\* else non-linear complex when MI > 0.4 and |Pearson| < 0.3, else linear;
\* every triple has exactly one type.
C20_DecisionTree ==
    relationship_type # None =>
        /\ relationship_type \in {T_none, T_monotonic, T_complex, T_linear}
        /\ AllBelow => relationship_type = T_none
        /\ (~AllBelow /\ RankAbove) => relationship_type = T_monotonic
        /\ (~AllBelow /\ ~RankAbove /\ ComplexDependency) => relationship_type = T_complex
        /\ (~AllBelow /\ ~RankAbove /\ ~ComplexDependency) => relationship_type = T_linear

\* a triple that passes the second and the third test was classified
C20_Witness ==
    /\ InsightFull
    /\ ~AllBelow /\ RankAbove /\ ComplexDependency
    /\ result.classification.type = T_monotonic

\* the sign as the code words it
sign(x) == IF x > 0 THEN "positive" ELSE "negative"

\* C21: the direction is the sign of the metric the strength was taken
\* from: of Spearman whenever the type is non-linear (monotonic or
\* complex), of Pearson otherwise.
C21_DirectionOfDominantMetric ==
    (InsightFull /\ pearson_r # 0 /\ spearman_rho # 0) =>
        result.classification.direction =
            (IF is_non_linear(result.classification.type)
             THEN sign(spearman_rho)
             ELSE sign(pearson_r))

\* the outlier step of the call is over
AfterOutliers == ipc \in {"direction", "confidence", "return"} \/ InsightFull

C23_BaseConfidence ==
    (InsightFull /\ ~Influential) =>
        result.classification.confidence =
            (IF insight_n < 15 \/ pearson_p > 50 THEN "Low"
             ELSE IF insight_n < 30 \/ result.classification.strength = "Moderate" THEN "Medium"
             ELSE "High")

\* C24: pairs with a missing value are left out before anything is
\* computed: the n < 3 test and the reported n count the pairs that are
\* left, and a full result is returned when 3 or more are left.
C24_MissingPairsExcluded ==
    (ipc \in {"returned", "raised"} /\ len_data1 = len_data2) =>
        LET remaining == len_data1 - missing_pairs
        IN  /\ remaining < 3 => (ipc = "returned" /\ result.kind = "error")
            /\ remaining >= 3 => (InsightFull /\ result.n = remaining)

\* C19: a zoom bound given on the command line, 0 included, is the bound
\* tiling uses; an auto-detected value stands only for a bound that was
\* not given.
C19_SpecifiedZoomUsed ==
    (tpc \in {"convert", "upload"} \/ gdal_zoom # <<>>) =>
        LET auto == calculate_optimal_zoom(bounds, file_size_kb)
        IN  /\ zoom_min = (IF args_zoom_min # <<>> THEN args_zoom_min ELSE <<auto[1]>>)
            /\ zoom_max = (IF args_zoom_max # <<>> THEN args_zoom_max ELSE <<auto[2]>>)
            /\ gdal_zoom # <<>> => gdal_zoom = <<zoom_min[1], zoom_max[1]>>

\* C17: two requests at the same time, with the same layer name or not,
\* do not touch each other's files or task entries: each request reads
\* its own upload, sends its own temporary file, and ends with the status
\* it has when it runs alone (done, R2 and D1 answering).
C17_JobsIndependent ==
    \A j \in DOMAIN jobs :
        /\ jobs[j].geojson \in {0, j}
        /\ jobs[j].sent \in {0, j}
        /\ jobs[j].pc = "returned" =>
             /\ conversion_tasks[task_of(j)].status = "done"
             /\ jobs[j].geojson = j /\ jobs[j].sent = j

registered == task_id \in DOMAIN conversion_tasks

finished == registered /\ conversion_tasks[task_id].status \in {"done", "error"}

\* C18: every task that admin_upload registers eventually reaches the
\* status 'done' or 'error', whatever the upload type and the outcome of
\* the external calls.
C18_RegisteredTaskFinishes == registered ~> finished

\* C25: once the status of a task is 'done' or 'error', no later step of
\* its job changes the entry; a task reported 'done' is not rewritten to
\* 'error' by a failure of the cleanup that follows.
C25_FinalStatusIsFinal ==
    [][finished => conversion_tasks' = conversion_tasks]_vars

\* C26: a task is 'done' only if insert_layer returned an id, that is, the
\* layer's row is in the catalog, for each of the four job types.
C26_DoneOnlyIfCataloged ==
    (registered /\ conversion_tasks[task_id].status = "done") => map_layers # {}

\* C27: upload_tiles_to_r2 returns success only if every PNG tile under
\* the directory was uploaded; one failed tile makes it return failure.
C27_SuccessMeansAllTiles ==
    (pc = "uploaded_tiles" /\ success) => (total > 0 /\ uploaded = total)

\* the entry carries a 'progress' key
has_progress(entry) == entry.progress # NoProgress

\* C28: the progress of a task never decreases: each write of 'progress'
\* is at least the one before it, the tile upload of a GeoTIFF job after
\* its 60% report included.
C28_ProgressNeverDecreases ==
    [][(registered /\ has_progress(conversion_tasks[task_id])
                   /\ has_progress(conversion_tasks'[task_id]))
         => conversion_tasks'[task_id].progress >= conversion_tasks[task_id].progress]_vars

\* C29: a job that has ended with 'done' or 'error' has removed its
\* uploaded input and its temporary files and directories, on every path.
C29_NothingLeftBehind ==
    (pc = "returned" /\ finished) => files = {}

\* C30: a step of a job writes only the entry of the job's own task id:
\* the entries under other ids are left as they are, and no entry is ever
\* deleted.
C30_OnlyOwnEntry ==
    [][\A t \in DOMAIN conversion_tasks :
          /\ t \in DOMAIN conversion_tasks'
          /\ conversion_tasks'[t] # conversion_tasks[t] =>
                \E j \in Requests : t = task_of(j) /\ jobs'[j] # jobs[j]]_vars

\* one job has run to its end while the other task, registered before,
\* still has the entry admin_upload gave it
C30_Witness ==
    /\ DOMAIN conversion_tasks = {task_of(1), task_of(2)}
    /\ jobs[1].pc = "returned"
    /\ jobs[2].pc = "read"
    /\ conversion_tasks[task_of(1)].status \in {"done", "error"}
    /\ conversion_tasks[task_of(2)].status = "starting"

====
